---- MODULE Spec2Model ----
(***************************************************************************)
(* Model of the `tilda build` packaging pipeline (TildaCloud/cli),          *)
(* src/src/commands/build/index.ts, Build.run, and of the inline routing    *)
(* config schema of src/src/lib/schemas.ts.                                 *)
(*                                                                          *)
(* Strings are modelled as sequences of tokens: a token is a path           *)
(* separator "/", a name without '.' or '/', or an extension that starts    *)
(* with '.'.  Two token sequences denote the same string exactly when they  *)
(* are equal, and startsWith/endsWith/basename/extname and the regular      *)
(* expressions of the code are computed on the tokens.                      *)
(*                                                                          *)
(* An optional field of a JSON object is a set: {} when the key is absent   *)
(* (undefined), {v} when it is present with value v.                        *)
(*                                                                          *)
(* Spec covers Build.run from the staging copies to package.zip for one      *)
(* root static directory.  SpecBuild covers the whole of Build.run: the     *)
(* validation of the flags, the clearing of .tilda, the staging copies      *)
(* with the contents of the files, the lock files and the archive.          *)
(*                                                                          *)
(* Further specifications share the variables and pin the ones they do not  *)
(* use: SpecFlags (parsing of the framework flags, build/index.ts and the   *)
(* adapters), SpecDeploy (deploy/index.ts), SpecNextJs (backup, patch and   *)
(* restore of the user's next.config, build/nextjs/index.ts), SpecSafely    *)
(* (lib/utils.ts), SpecStatic (BuildStatic.run) and SpecStandalone          *)
(* (Build.run on a server directory that ships its own package.json).       *)
(***************************************************************************)
EXTENDS Integers, Sequences, FiniteSets, TLC

VARIABLES
    rootStaticDir,          \* input: entries of the root static directory
    serverDir,              \* input: entries of the server directory
    routingConfigJson,      \* input: flags.routingConfigJson
    tildaBuildDir,          \* entries on disk under .tilda/build
    filesInTildaBuildDir,   \* result of fs.readdir(tildaBuildDirPath)
    computeFiles,           \* Dirents kept by the compute filter
    inlineRoutingConfig,    \* routes of the parsed inline routing config
    staticFiles,            \* Dirents kept by the static filter
    routes,                 \* buildMetadata.v2.routes
    metadataJson,           \* .tilda/build/metadata.json: {} or {text}
    packageZip,             \* .tilda/build/package.zip: {} or {entries}
    pc,                     \* position of Build.run
    errorMessage,           \* message of this.error, "" when none
    flags,                  \* input: the parsed path flags and preserveStage
    projectFiles,           \* input: non-directory entries of the project
    packageJson,            \* input: `type` of <projectDir>/package.json
    tildaStageDir,          \* entries on disk under .tilda/stage
    serverFileTrace,        \* serverFileTrace.fileList
    entryFileDependencies,  \* traced dependencies kept by the pruning loop
    logged,                 \* static paths named by the overwrite warning
    pendingWrites,          \* fs.writeFile calls issued and not yet settled
    fileData,               \* content of the non-directory entries of
                            \* .tilda/build, by relative path
    zip,                    \* entries of the JSZip object, by name
    command,                \* the command that runs, "" when it is Build.run
    invokedBy,              \* who invoked the command: "cli" or an adapter
    argv,                   \* the framework flags handed to the command
    tildaPackageZip,        \* <projectDir>/.tilda/package.zip: {} or {file}
    requests,               \* requests sent by `tilda deploy`, in order
    configFile,             \* content of the Next.js config file
    originalConfigFile,     \* the '.original' backup: {} or {content}
    configFilePaths,        \* this.configFilePaths is set
    originalConfigFileText, \* the config text read before the backup
    fnOrPromise,            \* the argument of a call of safely
    result,                 \* what the call of safely resolved to
    unhandledRejections     \* rejections that no handler received

\* The variables of the validation, clearing and staging steps.
stagingVars == <<flags, projectFiles, packageJson, tildaStageDir,
                 serverFileTrace, entryFileDependencies, logged, pendingWrites>>

\* The variables of the other commands and of safely.
flagVars == <<command, invokedBy, argv>>
deployVars == <<tildaPackageZip, requests>>
nextJsVars == <<configFile, originalConfigFile, configFilePaths,
               originalConfigFileText>>
safelyVars == <<fnOrPromise, result, unhandledRejections>>
cliVars == <<flagVars, deployVars, nextJsVars, safelyVars>>

vars == <<rootStaticDir, serverDir, routingConfigJson, tildaBuildDir,
          filesInTildaBuildDir, computeFiles, inlineRoutingConfig, staticFiles,
          routes, metadataJson, packageZip, pc, errorMessage, stagingVars,
          fileData, zip, cliVars>>

----------------------------------------------------------------------------
(* Bounds of the model.                                                     *)

MaxStatic == 2      \* most entries in the root static directory
MaxInline == 2      \* most rules in the inline routing config

----------------------------------------------------------------------------
(* Optional values.                                                         *)

None == {}
Some(v) == {v}
IsSome(o) == o # {}
Get(o) == CHOOSE v \in o : TRUE

----------------------------------------------------------------------------
(* Strings as token sequences.                                              *)

StartsWith(s, prefix) ==
    /\ Len(prefix) <= Len(s)
    /\ SubSeq(s, 1, Len(prefix)) = prefix

EndsWith(s, suffix) ==
    /\ Len(suffix) <= Len(s)
    /\ SubSeq(s, Len(s) - Len(suffix) + 1, Len(s)) = suffix

\* Index of the last "/" of p, 0 when there is none.
LastSlash(p) ==
    LET at == {i \in 1..Len(p) : p[i] = "/"}
    IN  IF at = {} THEN 0 ELSE CHOOSE i \in at : \A j \in at : j <= i

\* path.basename(p)
Basename(p) == SubSeq(p, LastSlash(p) + 1, Len(p))

IsExtToken(t) == t \in {".html", ".ico", ".json", ".js", ".txt", ".yaml", ".png",
                        ".progressiverendering", ".tildaprogressiverender"}

\* path.extname(p): from the last '.' of the basename, '' when the basename
\* has no '.' or only a leading one.
Extname(p) ==
    LET b == Basename(p)
    IN  IF Len(b) > 1 /\ IsExtToken(b[Len(b)]) THEN <<b[Len(b)]>> ELSE <<>>

\* path.join(a, b) for normalized a and b
PathJoin(a, b) == a \o <<"/">> \o b

\* path.join('/', rel) for a normalized relative path rel
JoinRoot(rel) == <<"/">> \o rel

\* path.relative(from, to) for a path `to` below the directory `from`
PathRelative(from, to) == SubSeq(to, Len(from) + 2, Len(to))

\* s.replace(/\/index\.html$/, replacement)
ReplaceIndexHtmlSuffix(s, replacement) ==
    IF EndsWith(s, <<"/", "index", ".html">>)
    THEN SubSeq(s, 1, Len(s) - 3) \o replacement
    ELSE s

\* s.replace(/\.html$/, '')
ReplaceHtmlSuffix(s) ==
    IF EndsWith(s, <<".html">>) THEN SubSeq(s, 1, Len(s) - 1) ELSE s

----------------------------------------------------------------------------
(* Directory entries.                                                       *)

Dirent(p, k) == [path |-> p, kind |-> k]

IsFile(entry) == entry.kind = "file"
IsSymbolicLink(entry) == entry.kind = "symlink"
IsDirectory(entry) == entry.kind = "dir"

\* The directories that hold the path p, outermost first excluded: every
\* proper prefix of p that ends right before a "/".
AncestorsOf(p) == {SubSeq(p, 1, i - 1) : i \in {j \in 1..Len(p) : p[j] = "/"}}

\* fs.cp(src, dest, {recursive: true, verbatimSymlinks: true}): the entries
\* of src appear below dest with their kinds, symlinks stay symlinks, and
\* dest and the directories on the way are created.
CopyDir(src, dest) ==
    LET copied == {Dirent(PathJoin(dest, e.path), e.kind) : e \in src}
        dirs   == {dest} \cup AncestorsOf(dest)
                    \cup UNION {AncestorsOf(e.path) : e \in copied}
    IN  copied \cup {Dirent(d, "dir") : d \in dirs}

\* All orders in which a directory listing can return the entries of S.
RECURSIVE Listings(_)
Listings(S) ==
    IF S = {} THEN {<<>>}
    ELSE UNION {{<<x>> \o rest : rest \in Listings(S \ {x})} : x \in S}

\* One fixed listing of S.
RECURSIVE SomeListing(_)
SomeListing(S) ==
    IF S = {} THEN <<>>
    ELSE LET x == CHOOSE y \in S : TRUE
         IN  <<x>> \o SomeListing(S \ {x})

\* seq.filter(Test), kept as the subsequence of the indices in keep
RECURSIVE FilterSeq(_, _)
FilterSeq(seq, keep) ==
    IF seq = <<>> THEN <<>>
    ELSE LET rest == FilterSeq(Tail(seq), keep)
         IN  IF Head(seq) \in keep THEN <<Head(seq)>> \o rest ELSE rest

----------------------------------------------------------------------------
(* File contents.  The content of a regular file is named by the absolute   *)
(* path of the file it was copied from, the content of a symlink is its     *)
(* link-target string, and the two generated files have their own shape.    *)

Bytes(sourcePath) == [bytes |-> sourcePath]
Link(target) == [link |-> target]

\* fs.readlink of a symlink of the project: every symlink of the model
\* holds the same relative target.
ReadLink(sourcePath) == <<"entry", ".js">>

\* JSON.stringify(buildMetadata, null, 2): the text is determined by the
\* routes, the only part of the metadata the model varies.
JsonStringify(buildMetadata) == [json |-> buildMetadata]

\* No file at all.
EmptyFiles == [p \in {} |-> p]

\* The contents fs.cp writes when it copies the non-directory entries src
\* (relative to the directory srcDir) below dest: a regular file keeps its
\* bytes, a symlink keeps its target (verbatimSymlinks).
CopyData(src, srcDir, dest) ==
    [p \in {PathJoin(dest, e.path) : e \in src} |->
        LET e == CHOOSE x \in src : PathJoin(dest, x.path) = p
        IN  IF IsSymbolicLink(e)
            THEN Link(ReadLink(PathJoin(srcDir, e.path)))
            ELSE Bytes(PathJoin(srcDir, e.path))]

\* The entries of disk after the entries of copied were written over it:
\* an entry of copied replaces the entry at the same path.
Overwrite(disk, copied) ==
    {e \in disk : \A c \in copied : c.path # e.path} \cup copied

----------------------------------------------------------------------------
(* Inline routing config: InlineRoutingConfigSchema.                        *)

HttpMethods == {"GET", "POST", "PUT", "DELETE", "PATCH", "HEAD", "OPTIONS"}
MaxMethods == 7
MinOneOf == 1
MaxOneOf == 100

PathModes == {"exact", "prefix", "oneOf", "regex"}

PathCriteria(exact, prefix, oneOf, regex) ==
    [exact |-> exact, prefix |-> prefix, oneOf |-> oneOf, regex |-> regex]

\* z.object({...}) of one element of routes
RouteSchemaAccepts(route) ==
    /\ IsSome(route.criteria.path.oneOf) =>
          /\ Len(Get(route.criteria.path.oneOf)) >= MinOneOf
          /\ Len(Get(route.criteria.path.oneOf)) <= MaxOneOf
    /\ IsSome(route.criteria.method) =>
          /\ Len(Get(route.criteria.method)) <= MaxMethods
          /\ \A i \in DOMAIN Get(route.criteria.method) :
                Get(route.criteria.method)[i] \in HttpMethods
    /\ route.action.origin \in {"compute", "static"}

\* InlineRoutingConfigSchema.parseAsync(json) resolves
InlineRoutingConfigSchemaAccepts(json) ==
    \A i \in DOMAIN json.routes : RouteSchemaAccepts(json.routes[i])

----------------------------------------------------------------------------
(* Route synthesis: Build.run, buildMetadata.v2.routes.                     *)

Criteria(path, method) == [path |-> path, method |-> method]

\* An action of an inline rule (InlineRoutingConfigSchema).
InlineAction(origin, staticFileRelativePath, status, headers) ==
    [origin |-> origin, staticFileRelativePath |-> staticFileRelativePath,
     status |-> status, headers |-> headers]

\* An action of an emitted rule: the object that JSON.stringify serializes,
\* a key with value undefined being a key that is absent.
Action(origin, originPath, staticFileRelativePath, status, headers) ==
    [origin |-> origin, originPath |-> originPath,
     staticFileRelativePath |-> staticFileRelativePath,
     status |-> status, headers |-> headers]

Route(criteria, action) == [criteria |-> criteria, action |-> action]

\* Truthiness of an optional string: present and not ''.
Truthy(o) == IsSome(o) /\ Get(o) # <<>>

\* { ...route.action, ...(route.action.staticFileRelativePath &&
\*   { originPath: ..., staticFileRelativePath: undefined }) }
MapInlineAction(a) ==
    IF Truthy(a.staticFileRelativePath)
    THEN Action(a.origin, Some(Get(a.staticFileRelativePath)), None,
                a.status, a.headers)
    ELSE Action(a.origin, None, a.staticFileRelativePath, a.status, a.headers)

MapInlineRoute(route) == Route(route.criteria, MapInlineAction(route.action))

\* Path of a Dirent relative to tildaBuildDirPath.
RelativePath(entry) == entry.path

StaticDirName == <<"static">>
ComputeZone == <<"compute">>
DebugDirName == <<"debug">>

\* path.join('/', path.relative(path.join(tildaBuildDirPath, 'static'), file))
RoutePathOf(entry) == JoinRoot(PathRelative(StaticDirName, RelativePath(entry)))

\* Variant of IsComputeFile that forgets entry.isFile().
IsComputeFile_AnyEntry(entry) ==
    StartsWith(entry.path, <<"compute", "/">>)

\* The filter of computeFiles.
IsComputeFile(entry) ==
    IsFile(entry) /\ StartsWith(RelativePath(entry), ComputeZone \o <<"/">>)

\* The filter of staticFiles.
IsUnclaimedStaticFile(entry, inlineRoutes) ==
    /\ IsFile(entry)
    /\ StartsWith(RelativePath(entry), StaticDirName \o <<"/">>)
    /\ ~ \E i \in DOMAIN inlineRoutes :
            inlineRoutes[i].action.staticFileRelativePath = Some(RoutePathOf(entry))

\* The suffix that makes the route synthesis abort.
StrayFileSuffix == <<".tildaprogressiverender", ".json">>

\* The map callback throws this.error("Stray ...") for the entry.
IsStrayFile(entry) ==
    /\ Basename(RelativePath(entry)) # <<"index", ".html">>
    /\ EndsWith(RelativePath(entry), StrayFileSuffix)

\* Variant of IndexHtmlRoute that forgets the trailing-slash path.
IndexHtmlRoute_NoSlashVariant(routePath) ==
    Route(Criteria(PathCriteria(None, None,
                       Some(<<routePath, ReplaceIndexHtmlSuffix(routePath, <<>>)>>),
                       None), None),
          Action("static", Some(routePath), None, None, None))

IndexHtmlRoute(routePath) ==
    Route(Criteria(PathCriteria(None, None,
                       Some(<<routePath,
                              ReplaceIndexHtmlSuffix(routePath, <<>>),
                              ReplaceIndexHtmlSuffix(routePath, <<"/">>)>>),
                       None), None),
          Action("static", Some(routePath), None, None, None))

HtmlRoute(routePath) ==
    Route(Criteria(PathCriteria(None, None,
                       Some(<<routePath, ReplaceHtmlSuffix(routePath)>>),
                       None), None),
          Action("static", Some(routePath), None, None, None))

ExactRoute(routePath) ==
    Route(Criteria(PathCriteria(Some(routePath), None, None, None), None),
          Action("static", None, None, None, None))

\* The map callback over staticFiles, for an entry that is not stray.
StaticFileRoute(entry) ==
    LET routePath == RoutePathOf(entry)
    IN  IF Basename(RelativePath(entry)) = <<"index", ".html">>
        THEN IndexHtmlRoute(routePath)
        ELSE IF Extname(RelativePath(entry)) = <<".html">>
        THEN HtmlRoute(routePath)
        ELSE ExactRoute(routePath)

CatchAllRoute ==
    Route(Criteria(PathCriteria(None, Some(<<"/">>), None, None), None),
          Action("compute", None, None, None, None))

\* Variant of BuildRoutes that spreads the static rules before the inline ones.
BuildRoutes_StaticFirst(inlineRoutes, statics, computes) ==
    [i \in DOMAIN statics |-> StaticFileRoute(statics[i])]
    \o [i \in DOMAIN inlineRoutes |-> MapInlineRoute(inlineRoutes[i])]
    \o (IF Len(computes) > 0 THEN <<CatchAllRoute>> ELSE <<>>)

\* The routes array literal of buildMetadata.
BuildRoutes(inlineRoutes, statics, computes) ==
    [i \in DOMAIN inlineRoutes |-> MapInlineRoute(inlineRoutes[i])]
    \o [i \in DOMAIN statics |-> StaticFileRoute(statics[i])]
    \o (IF Len(computes) > 0 THEN <<CatchAllRoute>> ELSE <<>>)

----------------------------------------------------------------------------
(* Inputs.                                                                  *)

\* Suffix of the artifacts that `tilda build nextjs` writes to .tilda/stage.
ProgressiveRenderingSuffix == <<".progressiverendering", ".json">>

\* Entries a root static directory can hold, relative to it.
StaticPool ==
    { Dirent(<<"index", ".html">>, "file"),
      Dirent(<<"a", "/", "index", ".html">>, "file"),
      Dirent(<<"a", ".html">>, "file"),
      Dirent(<<"favicon", ".ico">>, "file"),
      Dirent(<<"p">> \o ProgressiveRenderingSuffix, "file"),
      Dirent(<<"q">> \o StrayFileSuffix, "file"),
      Dirent(<<"link", ".ico">>, "symlink") }

\* Entries a server directory can hold, relative to it.
ServerPool ==
    { Dirent(<<"server", ".js">>, "file"),
      Dirent(<<"current">>, "symlink") }

\* The rule `tilda build nextjs` pushes for a partially static route /x
\* with data route /p.rsc.
AdapterRoute ==
    Route(Criteria(PathCriteria(Some(<<"/", "x">>), None, None, None),
                   Some(<<"GET", "HEAD">>)),
          InlineAction("static",
                       Some(<<"/", "p">> \o ProgressiveRenderingSuffix), None,
                       Some(<<<<"progressive-rendering-format", "1">>,
                              <<"content-type", "application/json">>>>)))

\* A rule that references its static file without a leading '/'.
RelativeRefRoute ==
    Route(Criteria(PathCriteria(Some(<<"/", "y">>), None, None, None), None),
          InlineAction("static", Some(<<"p">> \o ProgressiveRenderingSuffix),
                       Some(200), None))

\* A rule with the shape of the catch-all.
PrefixRoute ==
    Route(Criteria(PathCriteria(None, Some(<<"/">>), None, None), None),
          InlineAction("compute", None, None, None))

\* A rule whose criteria.path sets no mode.
NoModeRoute ==
    Route(Criteria(PathCriteria(None, None, None, None), None),
          InlineAction("compute", None, None, None))

\* A rule whose criteria.path sets two modes.
TwoModeRoute ==
    Route(Criteria(PathCriteria(Some(<<"/", "x">>), Some(<<"/">>), None, None), None),
          InlineAction("compute", None, None, None))

\* A rule whose method list repeats a method.
RepeatedMethodRoute ==
    Route(Criteria(PathCriteria(None, None, None, Some(<<"^", "/", "z", "$">>)),
                   Some(<<"GET", "GET">>)),
          InlineAction("compute", None, None, None))

\* A rule with eight methods, which the schema rejects.
TooManyMethodsRoute ==
    Route(Criteria(PathCriteria(Some(<<"/", "x">>), None, None, None),
                   Some(<<"GET", "POST", "PUT", "DELETE", "PATCH", "HEAD",
                          "OPTIONS", "GET">>)),
          InlineAction("compute", None, None, None))

InlinePool == {AdapterRoute, RelativeRefRoute, PrefixRoute, NoModeRoute,
               TwoModeRoute, RepeatedMethodRoute, TooManyMethodsRoute}

RECURSIVE SeqsUpTo(_, _)
SeqsUpTo(S, n) ==
    IF n = 0 THEN {<<>>}
    ELSE LET shorter == SeqsUpTo(S, n - 1)
         IN  shorter \cup {Append(s, x) : s \in shorter, x \in S}

\* Values of flags.routingConfigJson: text that JSON.parse rejects, or the
\* JSON text of an object with a routes array.
RoutingConfigJsons ==
    {[wellFormed |-> FALSE, routes |-> <<>>]}
    \cup {[wellFormed |-> TRUE, routes |-> r] : r \in SeqsUpTo(InlinePool, MaxInline)}

\* The flags of a run that stages one root static directory and a server
\* directory and nothing else.
NoFlags ==
    [serverDir |-> <<>>, serverEntryFile |-> <<>>, rootStaticDir |-> <<>>,
     underscoreNamedStaticDir |-> None, preserveStage |-> FALSE]

----------------------------------------------------------------------------
(* Build.run                                                                *)

\* The framework flags when none is given, and the values of the variables
\* of safely when no call is under way.
NoArgv == [framework |-> None, frameworkVersion |-> None]
NoOperation == [kind |-> "none"]
NoResult == [kind |-> "none"]

\* No build command was invoked through the CLI or an adapter.
FlagsIdle ==
    /\ command = ""
    /\ invokedBy = "cli"
    /\ argv = NoArgv

\* `tilda deploy` does not run and .tilda/package.zip does not exist.
DeployIdle ==
    /\ tildaPackageZip = None
    /\ requests = <<>>

\* `tilda build nextjs` does not run.
NextJsIdle ==
    /\ configFile = ""
    /\ originalConfigFile = None
    /\ configFilePaths = FALSE
    /\ originalConfigFileText = None

\* No call of safely is under way.
SafelyIdle ==
    /\ fnOrPromise = NoOperation
    /\ result = NoResult
    /\ unhandledRejections = {}

\* No other command runs and nothing of theirs is on disk.
OtherCommandsIdle ==
    /\ FlagsIdle
    /\ DeployIdle
    /\ NextJsIdle
    /\ SafelyIdle

Init ==
    /\ rootStaticDir \in {d \in SUBSET StaticPool : Cardinality(d) <= MaxStatic}
    /\ serverDir \in SUBSET ServerPool
    /\ routingConfigJson \in RoutingConfigJsons
    /\ tildaBuildDir = {}
    /\ filesInTildaBuildDir = <<>>
    /\ computeFiles = <<>>
    /\ inlineRoutingConfig = <<>>
    /\ staticFiles = <<>>
    /\ routes = <<>>
    /\ metadataJson = None
    /\ packageZip = None
    /\ pc = "start"
    /\ errorMessage = ""
    /\ flags = NoFlags
    /\ projectFiles = {}
    /\ packageJson = None
    /\ tildaStageDir = {}
    /\ serverFileTrace = {}
    /\ entryFileDependencies = {}
    /\ logged = {}
    /\ pendingWrites = {}
    /\ fileData = EmptyFiles
    /\ zip = EmptyFiles
    /\ OtherCommandsIdle

\* this.error(message): the command throws and nothing after it runs.
Fail(message) ==
    /\ pc' = "failed"
    /\ errorMessage' = message

\* fs.cp of the root static directory into build/static.
CopyStaticFiles ==
    /\ pc = "start"
    /\ tildaBuildDir' = tildaBuildDir \cup CopyDir(rootStaticDir, StaticDirName)
    /\ fileData' = CopyData(rootStaticDir, <<"public">>, StaticDirName) @@ fileData
    /\ pc' = "staticCopied"
    /\ UNCHANGED <<cliVars, rootStaticDir, serverDir, routingConfigJson,
                   filesInTildaBuildDir, computeFiles, inlineRoutingConfig,
                   staticFiles, routes, metadataJson, packageZip, errorMessage,
                   stagingVars, zip>>

\* fs.cp of the server directory into build/compute/<basename> and into
\* build/debug/<basename>, and of the lock file into build/debug.
CopyServerFiles ==
    /\ pc = "staticCopied"
    /\ tildaBuildDir' =
          tildaBuildDir
          \cup CopyDir(serverDir, PathJoin(ComputeZone, <<"server">>))
          \cup CopyDir(serverDir, PathJoin(DebugDirName, <<"server">>))
          \cup {Dirent(PathJoin(DebugDirName, <<"package-lock", ".json">>), "file")}
    /\ fileData' =
          CopyData(serverDir, <<"server">>, PathJoin(ComputeZone, <<"server">>))
          @@ CopyData(serverDir, <<"server">>, PathJoin(DebugDirName, <<"server">>))
          @@ (PathJoin(DebugDirName, <<"package-lock", ".json">>)
                 :> Bytes(<<"package-lock", ".json">>))
          @@ fileData
    /\ pc' = "serverCopied"
    /\ UNCHANGED <<cliVars, rootStaticDir, serverDir, routingConfigJson,
                   filesInTildaBuildDir, computeFiles, inlineRoutingConfig,
                   staticFiles, routes, metadataJson, packageZip, errorMessage,
                   stagingVars, zip>>

\* fs.readdir(tildaBuildDirPath, {withFileTypes, recursive}) and the
\* computeFiles filter.  The listing order of the entries below static/ is
\* arbitrary; directories and the other entries are listed in one fixed
\* order, which no consumer observes.
ReadBuildDir ==
    /\ pc = "serverCopied"
    /\ LET dirs    == {e \in tildaBuildDir : IsDirectory(e)}
           statics == {e \in tildaBuildDir :
                          /\ ~IsDirectory(e)
                          /\ StartsWith(e.path, StaticDirName \o <<"/">>)}
           others  == (tildaBuildDir \ dirs) \ statics
       IN  \E order \in Listings(statics) :
              /\ filesInTildaBuildDir' =
                    SomeListing(dirs) \o order \o SomeListing(others)
              /\ computeFiles' =
                    FilterSeq(filesInTildaBuildDir',
                              {e \in tildaBuildDir : IsComputeFile(e)})
    /\ pc' = "listed"
    /\ UNCHANGED <<cliVars, rootStaticDir, serverDir, routingConfigJson, tildaBuildDir,
                   inlineRoutingConfig, staticFiles, routes, metadataJson,
                   packageZip, errorMessage,
                   stagingVars, fileData, zip>>

\* JSON.parse(flags.routingConfigJson), then InlineRoutingConfigSchema.parseAsync.
ParseInlineRoutingConfig ==
    /\ pc = "listed"
    /\ IF routingConfigJson.wellFormed
          /\ InlineRoutingConfigSchemaAccepts(routingConfigJson)
       THEN /\ inlineRoutingConfig' = routingConfigJson.routes
            /\ pc' = "parsed"
            /\ UNCHANGED errorMessage
       ELSE /\ Fail("Error parsing inline routing config")
            /\ UNCHANGED inlineRoutingConfig
    /\ UNCHANGED <<cliVars, rootStaticDir, serverDir, routingConfigJson, tildaBuildDir,
                   filesInTildaBuildDir, computeFiles, staticFiles, routes,
                   metadataJson, packageZip,
                   stagingVars, fileData, zip>>

\* The staticFiles filter and the buildMetadata literal.
SynthesizeRoutes ==
    /\ pc = "parsed"
    /\ staticFiles' =
          FilterSeq(filesInTildaBuildDir,
                    {e \in tildaBuildDir :
                        IsUnclaimedStaticFile(e, inlineRoutingConfig)})
    /\ IF \E i \in DOMAIN staticFiles' : IsStrayFile(staticFiles'[i])
       THEN /\ Fail("Stray file should've been accounted for in inline routing config")
            /\ UNCHANGED routes
       ELSE /\ routes' = BuildRoutes(inlineRoutingConfig, staticFiles', computeFiles)
            /\ pc' = "synthesized"
            /\ UNCHANGED errorMessage
    /\ UNCHANGED <<cliVars, rootStaticDir, serverDir, routingConfigJson, tildaBuildDir,
                   filesInTildaBuildDir, computeFiles, inlineRoutingConfig,
                   metadataJson, packageZip,
                   stagingVars, fileData, zip>>

\* fs.writeFile(metadataFilePath, JSON.stringify(buildMetadata, null, 2))
WriteMetadata ==
    /\ pc = "synthesized"
    /\ metadataJson' = Some(JsonStringify(routes))
    /\ pc' = "written"
    /\ UNCHANGED <<cliVars, rootStaticDir, serverDir, routingConfigJson, tildaBuildDir,
                   filesInTildaBuildDir, computeFiles, inlineRoutingConfig,
                   staticFiles, routes, packageZip, errorMessage,
                   stagingVars, fileData, zip>>

\* zip.file(name, data, options)
ZipEntry(data, unixPermissions) ==
    [data |-> data, unixPermissions |-> unixPermissions]

\* The entries the zip loop adds for the listing: none for a directory,
\* the link target read by fs.readlink for a symlink, the bytes read by
\* fs.readFile for any other entry.
ZipLoop(listing, data) ==
    LET kept == {listing[i] : i \in {j \in DOMAIN listing :
                                        ~IsDirectory(listing[j])}}
    IN  [name \in {RelativePath(e) : e \in kept} |->
            LET e == CHOOSE x \in kept : RelativePath(x) = name
            IN  IF IsSymbolicLink(e)
                THEN ZipEntry(data[name], "0o120755")
                ELSE ZipEntry(data[name], "default")]

\* zip.file('metadata.json', Buffer.from(JSON.stringify(buildMetadata, null, 2)))
ZipMetadata_Empty(buildMetadata) ==
    <<"metadata", ".json">> :> ZipEntry(JsonStringify(<<>>), "default")

ZipMetadata(buildMetadata) ==
    <<"metadata", ".json">> :> ZipEntry(JsonStringify(buildMetadata), "default")

\* The zip loop over filesInTildaBuildDir, zip.file('metadata.json') and the
\* write of package.zip: the archive's entries and their names.
WritePackageZip ==
    /\ pc = "written"
    /\ zip' = ZipMetadata(routes) @@ ZipLoop(filesInTildaBuildDir, fileData)
    /\ packageZip' =
          Some({filesInTildaBuildDir[i].path :
                    i \in {j \in DOMAIN filesInTildaBuildDir :
                              ~IsDirectory(filesInTildaBuildDir[j])}}
               \cup {<<"metadata", ".json">>})
    /\ pc' = "done"
    /\ UNCHANGED <<cliVars, rootStaticDir, serverDir, routingConfigJson, tildaBuildDir,
                   filesInTildaBuildDir, computeFiles, inlineRoutingConfig,
                   staticFiles, routes, metadataJson, errorMessage,
                   stagingVars, fileData>>

Next ==
    \/ CopyStaticFiles
    \/ CopyServerFiles
    \/ ReadBuildDir
    \/ ParseInlineRoutingConfig
    \/ SynthesizeRoutes
    \/ WriteMetadata
    \/ WritePackageZip

Spec == Init /\ [][Next]_vars

----------------------------------------------------------------------------
(* Build.run from the validation of the flags on: the project on disk, the  *)
(* flags, the clearing of .tilda and the staging copies in detail.          *)

MaxRootStaticDirs == 2      \* most --rootStaticDir flags of a run

\* path.resolve(flags.projectDir)
ProjectDir == <<"/", "p">>

\* path.join(projectDirPath, rel)
InProject(rel) == PathJoin(ProjectDir, rel)

LOCK_FILES == << <<"package-lock", ".json">>, <<"pnpm-lock", ".yaml">> >>

\* The non-directory entries of the project apart from the lock files: a
\* server directory that holds a client directory (the layout of a Svelte
\* build), a sibling whose name extends the server directory's name, two
\* static directories with one file name in common, three directories that
\* can serve as the underscore-named static directory, and a dependency.
ProjectTree ==
    { Dirent(InProject(<<"package", ".json">>), "file"),
      Dirent(InProject(<<"server", "/", "entry", ".js">>), "file"),
      Dirent(InProject(<<"server", "/", "current">>), "symlink"),
      Dirent(InProject(<<"server", "/", "client", "/", "app", ".js">>), "file"),
      Dirent(InProject(<<"server", "-old", "/", "entry", ".js">>), "file"),
      Dirent(InProject(<<"public", "/", "robots", ".txt">>), "file"),
      Dirent(InProject(<<"extra", "/", "robots", ".txt">>), "file"),
      Dirent(InProject(<<".", "next", "/", "static", "/", "chunk", ".js">>), "file"),
      Dirent(InProject(<<"apps", "/", ".", "next", "/", "static", "/", "chunk", ".js">>),
             "file"),
      Dirent(InProject(<<"assets", "/", "chunk", ".js">>), "file"),
      Dirent(InProject(<<"node_modules", "/", "dep", ".js">>), "file") }

\* Values of --serverDir: the server directory, and a path that does not exist.
ServerDirs == {InProject(<<"server">>), InProject(<<"missing">>)}

\* Values of --serverEntryFile: a file of the server directory, a file of
\* the sibling directory, a file elsewhere, and a path that does not exist.
EntryFiles ==
    { InProject(<<"server", "/", "entry", ".js">>),
      InProject(<<"server", "-old", "/", "entry", ".js">>),
      InProject(<<"node_modules", "/", "dep", ".js">>),
      InProject(<<"server", "/", "missing", ".js">>) }

\* Values of one --rootStaticDir.
RootStaticDirPool ==
    { InProject(<<"public">>), InProject(<<"extra">>),
      InProject(<<"server", "/", "client">>) }

\* Values of --underscoreNamedStaticDir.  In these paths every '.' is a
\* token of its own.
UnderscoreDirPool ==
    { InProject(<<".", "next", "/", "static">>),
      InProject(<<"apps", "/", ".", "next", "/", "static">>),
      InProject(<<"assets">>) }

\* Project-relative paths nodeFileTrace can report besides the entry file.
TracePool ==
    { <<"package", ".json">>,
      <<"node_modules", "/", "dep", ".js">>,
      <<"public", "/", "robots", ".txt">> }

\* What an earlier build left in .tilda/build, and an artifact that
\* `tilda build nextjs` wrote to .tilda/stage before it ran `tilda build`.
EarlierBuildDir == {Dirent(<<"static", "/", "old", ".html">>, "file"),
                    Dirent(<<"static">>, "dir")}
EarlierFileData ==
    <<"static", "/", "old", ".html">> :> Bytes(<<"earlier build">>)
StagedArtifacts == {Dirent(<<"p">> \o ProgressiveRenderingSuffix, "file")}

\* fs.stat(path).isDirectory() for a path of the project
IsDirectoryPath(files, path) ==
    \/ path = ProjectDir
    \/ \E e \in files : path \in AncestorsOf(e.path)

\* fs.stat(path).isFile() for a path of the project
IsFilePath(files, path) == \E e \in files : e.path = path /\ IsFile(e)

\* The non-directory entries of the project below dir, relative to dir.
EntriesBelow(files, dir) ==
    {Dirent(PathRelative(dir, e.path), e.kind) :
        e \in {x \in files : StartsWith(x.path, dir \o <<"/">>)}}

\* str.replace('.', '_'): the first '.' of the string becomes '_'.
ReplaceFirstDot(str) ==
    LET at == {i \in 1..Len(str) : str[i] = "."}
    IN  IF at = {} THEN str
        ELSE [str EXCEPT ![CHOOSE i \in at : \A j \in at : i <= j] = "_"]

\* path.relative(projectDirPath, underscoreNamedStaticDirPath).replace('.', '_')
UnderscoreDirName(underscoreNamedStaticDirPath) ==
    ReplaceFirstDot(PathRelative(ProjectDir, underscoreNamedStaticDirPath))

\* path.join(tildaBuildDirPath, 'compute', path.basename(serverDirPath)),
\* relative to .tilda/build
ComputeDirPath(serverDirPath) == PathJoin(ComputeZone, Basename(serverDirPath))

\* path.join(tildaBuildDirPath, 'debug', path.basename(serverDirPath))
DebugServerDirPath(serverDirPath) == PathJoin(DebugDirName, Basename(serverDirPath))

\* The names fs.readdir(dir, {recursive: true}) returns: the files and the
\* directories below dir, relative to it.
ReaddirNames(files, dir) ==
    LET below == EntriesBelow(files, dir)
    IN  {e.path : e \in below} \cup UNION {AncestorsOf(e.path) : e \in below}

\* The paths named by the log line 'Static file ... is present in multiple
\* root static directories': with more than one directory, every name a
\* directory shares with an earlier one.
OverwriteWarnings(files, dirs) ==
    IF Len(dirs) > 1
    THEN {name \in UNION {ReaddirNames(files, dirs[j]) : j \in DOMAIN dirs} :
             \E i, j \in DOMAIN dirs :
                /\ i < j
                /\ name \in ReaddirNames(files, dirs[i])
                /\ name \in ReaddirNames(files, dirs[j])}
    ELSE {}

\* A staging tree: its entries and the contents of its files.
Staged(entries, data) == [entries |-> entries, data |-> data]

\* fs.cp(srcDir, dest, {recursive: true, verbatimSymlinks: true}) onto the
\* staging tree: what is copied replaces what was at the same path.
CpInto_KeepExisting(tree, files, srcDir, dest) ==
    LET src == EntriesBelow(files, srcDir)
    IN  Staged(Overwrite(tree.entries, CopyDir(src, dest)),
               tree.data @@ CopyData(src, srcDir, dest))

CpInto(tree, files, srcDir, dest) ==
    LET src == EntriesBelow(files, srcDir)
    IN  Staged(Overwrite(tree.entries, CopyDir(src, dest)),
               CopyData(src, srcDir, dest) @@ tree.data)

\* The loop that copies the root static directories, first to last.
RECURSIVE CpRootStaticDirs(_, _, _)
CpRootStaticDirs(tree, files, dirs) ==
    IF dirs = <<>> THEN tree
    ELSE CpRootStaticDirs(CpInto(tree, files, Head(dirs), StaticDirName),
                          files, Tail(dirs))

\* The `continue` conditions of the pruning loop that come before the
\* package.json case.
IsPruned(dependency, f) ==
    \/ /\ IsSome(f.underscoreNamedStaticDir)
       /\ StartsWith(dependency,
                     PathRelative(ProjectDir, Get(f.underscoreNamedStaticDir))
                        \o <<"/">>)
    \/ \E i \in DOMAIN f.rootStaticDir :
          StartsWith(dependency,
                     PathRelative(ProjectDir, f.rootStaticDir[i]) \o <<"/">>)
    \/ StartsWith(dependency, PathRelative(ProjectDir, f.serverDir) \o <<"/">>)

\* path.relative(projectDirPath, path.join(projectDirPath, 'package.json'))
PackageJsonName == <<"package", ".json">>

\* JSON.stringify({ type: packageJson.type }, null, 2)
TypeOnly_Verbatim(type) == Bytes(InProject(PackageJsonName))

TypeOnly(type) == [type |-> type]

\* A call of fs.writeFile that was issued and not awaited.
PendingWrite(path, data) == [path |-> path, data |-> data]

\* The variables the validation and staging steps leave alone.
routingVars == <<rootStaticDir, serverDir, routingConfigJson,
                 filesInTildaBuildDir, computeFiles, inlineRoutingConfig,
                 staticFiles, routes, zip>>

InitBuild ==
    /\ flags \in [serverDir : ServerDirs,
                  serverEntryFile : EntryFiles,
                  rootStaticDir : SeqsUpTo(RootStaticDirPool, MaxRootStaticDirs),
                  underscoreNamedStaticDir :
                      {None} \cup {Some(d) : d \in UnderscoreDirPool},
                  preserveStage : BOOLEAN]
    /\ projectFiles \in
          {ProjectTree \cup {Dirent(InProject(LOCK_FILES[i]), "file") : i \in present} :
              present \in SUBSET DOMAIN LOCK_FILES}
    /\ packageJson \in {None, Some(<<"module">>)}
    /\ tildaStageDir = StagedArtifacts
    /\ \/ /\ tildaBuildDir = {}
          /\ fileData = EmptyFiles
          /\ metadataJson = None
          /\ packageZip = None
       \/ /\ tildaBuildDir = EarlierBuildDir
          /\ fileData = EarlierFileData
          /\ metadataJson = Some(JsonStringify(<<>>))
          /\ packageZip = Some({<<"static", "/", "old", ".html">>,
                                <<"metadata", ".json">>})
    /\ routingConfigJson = [wellFormed |-> TRUE, routes |-> <<>>]
    /\ rootStaticDir = {}
    /\ serverDir = {}
    /\ filesInTildaBuildDir = <<>>
    /\ computeFiles = <<>>
    /\ inlineRoutingConfig = <<>>
    /\ staticFiles = <<>>
    /\ routes = <<>>
    /\ serverFileTrace = {}
    /\ entryFileDependencies = {}
    /\ logged = {}
    /\ pendingWrites = {}
    /\ zip = EmptyFiles
    /\ pc = "validate"
    /\ errorMessage = ""
    /\ OtherCommandsIdle

\* The checks of the flags, in the order of the code; the first that fails
\* ends the command.
ValidateInputs ==
    /\ pc = "validate"
    /\ IF ~IsDirectoryPath(projectFiles, flags.serverDir)
       THEN Fail("Error checking server directory")
       ELSE IF \E i \in DOMAIN flags.rootStaticDir :
                  ~IsDirectoryPath(projectFiles, flags.rootStaticDir[i])
       THEN Fail("Error checking static directory")
       ELSE IF /\ IsSome(flags.underscoreNamedStaticDir)
               /\ ~IsDirectoryPath(projectFiles, Get(flags.underscoreNamedStaticDir))
       THEN Fail("Error checking static directory")
       ELSE IF ~IsFilePath(projectFiles, flags.serverEntryFile)
       THEN Fail("Error checking server entry file")
       ELSE IF ~StartsWith(flags.serverEntryFile, flags.serverDir)
       THEN Fail("Server entry file must be in the server directory")
       ELSE /\ pc' = "validated"
            /\ UNCHANGED errorMessage
    /\ UNCHANGED <<cliVars, routingVars, stagingVars, tildaBuildDir, fileData,
                   metadataJson, packageZip>>

\* .tilda/stage after `if (!flags.preserveStage) fs.rm(tildaStageDirPath)`
\* and fs.mkdir(tildaStageDirPath, {recursive: true})
ClearedStage_Always(stage, preserveStage) == {}

ClearedStage(stage, preserveStage) == IF preserveStage THEN stage ELSE {}

\* fs.rm of .tilda/build; fs.rm of .tilda/stage unless --preserveStage.
ClearTildaDirs ==
    /\ pc = "validated"
    /\ tildaBuildDir' = {}
    /\ fileData' = EmptyFiles
    /\ metadataJson' = None
    /\ packageZip' = None
    /\ tildaStageDir' = ClearedStage(tildaStageDir, flags.preserveStage)
    /\ pc' = "cleared"
    /\ UNCHANGED <<cliVars, routingVars, flags, projectFiles, packageJson,
                   serverFileTrace, entryFileDependencies, logged,
                   pendingWrites, errorMessage>>

\* nodeFileTrace([serverEntryFilePath], {base: projectDirPath}): the entry
\* file and what it requires, relative to the project directory.
TraceEntryFile ==
    /\ pc = "cleared"
    /\ \E required \in SUBSET TracePool :
          serverFileTrace' =
             {PathRelative(ProjectDir, flags.serverEntryFile)} \cup required
    /\ pc' = "traced"
    /\ UNCHANGED <<cliVars, routingVars, flags, projectFiles, packageJson, tildaStageDir,
                   entryFileDependencies, logged, pendingWrites, tildaBuildDir,
                   fileData, metadataJson, packageZip, errorMessage>>

\* The overwrite warnings and the copies of the root static directories.
CopyRootStaticDirs ==
    /\ pc = "traced"
    /\ logged' = OverwriteWarnings(projectFiles, flags.rootStaticDir)
    /\ LET tree == CpRootStaticDirs(Staged(tildaBuildDir, fileData),
                                    projectFiles, flags.rootStaticDir)
       IN  /\ tildaBuildDir' = tree.entries
           /\ fileData' = tree.data
    /\ pc' = "rootStaticCopied"
    /\ UNCHANGED <<cliVars, routingVars, flags, projectFiles, packageJson, tildaStageDir,
                   serverFileTrace, entryFileDependencies, pendingWrites,
                   metadataJson, packageZip, errorMessage>>

\* The copy of the underscore-named static directory.
CopyUnderscoreDir ==
    /\ pc = "rootStaticCopied"
    /\ LET tree ==
              IF IsSome(flags.underscoreNamedStaticDir)
              THEN LET dir == Get(flags.underscoreNamedStaticDir)
                   IN  CpInto(Staged(tildaBuildDir, fileData), projectFiles, dir,
                              PathJoin(StaticDirName, UnderscoreDirName(dir)))
              ELSE Staged(tildaBuildDir, fileData)
       IN  /\ tildaBuildDir' = tree.entries
           /\ fileData' = tree.data
    /\ pc' = "staticStaged"
    /\ UNCHANGED <<cliVars, routingVars, stagingVars, metadataJson, packageZip,
                   errorMessage>>

\* The copy of the server directory into build/compute/<basename>.
CopyServerDir ==
    /\ pc = "staticStaged"
    /\ LET tree == CpInto(Staged(tildaBuildDir, fileData), projectFiles,
                          flags.serverDir, ComputeDirPath(flags.serverDir))
       IN  /\ tildaBuildDir' = tree.entries
           /\ fileData' = tree.data
    /\ pc' = "computeStaged"
    /\ UNCHANGED <<cliVars, routingVars, stagingVars, metadataJson, packageZip,
                   errorMessage>>

\* The pruning loop over serverFileTrace.fileList.  For package.json with a
\* `type`, fs.writeFile is called inside safely(() => ...), which returns the
\* promise without awaiting it: the write is issued here and settles later.
PruneDependencies ==
    /\ pc = "computeStaged"
    /\ LET unpruned == {d \in serverFileTrace : ~IsPruned(d, flags)}
       IN  /\ entryFileDependencies' = unpruned \ {PackageJsonName}
           /\ pendingWrites' =
                 IF PackageJsonName \in unpruned /\ IsSome(packageJson)
                 THEN pendingWrites \cup
                         {PendingWrite(PathJoin(ComputeDirPath(flags.serverDir),
                                                PackageJsonName),
                                       TypeOnly(Get(packageJson)))}
                 ELSE pendingWrites
    /\ pc' = "pruned"
    /\ UNCHANGED <<cliVars, routingVars, flags, projectFiles, packageJson, tildaStageDir,
                   serverFileTrace, logged, tildaBuildDir, fileData,
                   metadataJson, packageZip, errorMessage>>

\* fs.cp of every kept dependency to the same relative path below
\* build/compute/<basename>.
CopyDependencies ==
    /\ pc = "pruned"
    /\ LET src  == {e \in EntriesBelow(projectFiles, ProjectDir) :
                       e.path \in entryFileDependencies}
           dest == ComputeDirPath(flags.serverDir)
       IN  /\ tildaBuildDir' = Overwrite(tildaBuildDir, CopyDir(src, dest))
           /\ fileData' = CopyData(src, ProjectDir, dest) @@ fileData
    /\ pc' = "dependenciesCopied"
    /\ UNCHANGED <<cliVars, routingVars, stagingVars, metadataJson, packageZip,
                   errorMessage>>

\* The copy of the server directory into build/debug/<basename>.
CopyDebugFiles ==
    /\ pc = "dependenciesCopied"
    /\ LET tree == CpInto(Staged(tildaBuildDir, fileData), projectFiles,
                          flags.serverDir, DebugServerDirPath(flags.serverDir))
       IN  /\ tildaBuildDir' = tree.entries
           /\ fileData' = tree.data
    /\ pc' = "debugCopied"
    /\ UNCHANGED <<cliVars, routingVars, stagingVars, metadataJson, packageZip,
                   errorMessage>>

\* lockFilesInfo: the LOCK_FILES that fs.stat finds at the project root.
LockFilesInfo(files) ==
    {i \in DOMAIN LOCK_FILES : IsFilePath(files, InProject(LOCK_FILES[i]))}

\* The lock file check, and the copy of every lock file found into
\* build/debug.
CopyLockFiles ==
    /\ pc = "debugCopied"
    /\ IF LockFilesInfo(projectFiles) = {}
       THEN /\ Fail("Lock file not found")
            /\ UNCHANGED <<tildaBuildDir, fileData>>
       ELSE LET src == {Dirent(LOCK_FILES[i], "file") :
                           i \in LockFilesInfo(projectFiles)}
            IN  /\ tildaBuildDir' =
                      Overwrite(tildaBuildDir, CopyDir(src, DebugDirName))
                /\ fileData' = CopyData(src, ProjectDir, DebugDirName) @@ fileData
                /\ pc' = "serverCopied"
                /\ UNCHANGED errorMessage
    /\ UNCHANGED <<cliVars, routingVars, stagingVars, metadataJson, packageZip>>

\* A write that was issued and not awaited reaches the disk, at any time
\* after the call.
SettlePendingWrite ==
    /\ \E write \in pendingWrites :
          /\ tildaBuildDir' =
                Overwrite(tildaBuildDir, {Dirent(write.path, "file")})
          /\ fileData' = (write.path :> write.data) @@ fileData
          /\ pendingWrites' = pendingWrites \ {write}
    /\ UNCHANGED <<cliVars, routingVars, flags, projectFiles, packageJson, tildaStageDir,
                   serverFileTrace, entryFileDependencies, logged,
                   metadataJson, packageZip, pc, errorMessage>>

\* fs.readFile or fs.readlink of a listed entry fails inside the zip loop:
\* this.error ends the command before zip.generateAsync and before the
\* write of package.zip.
ZipReadError_WritesPartial ==
    /\ pc = "written"
    /\ \E i \in DOMAIN filesInTildaBuildDir :
          /\ ~IsDirectory(filesInTildaBuildDir[i])
          /\ packageZip' =
                Some({filesInTildaBuildDir[j].path :
                          j \in {k \in 1..(i - 1) :
                                    ~IsDirectory(filesInTildaBuildDir[k])}})
    /\ Fail("Error reading file to add to zip")
    /\ UNCHANGED <<cliVars, routingVars, stagingVars, tildaBuildDir, fileData,
                   metadataJson>>

ZipReadError ==
    /\ pc = "written"
    /\ \E i \in DOMAIN filesInTildaBuildDir :
          ~IsDirectory(filesInTildaBuildDir[i])
    /\ Fail("Error reading file to add to zip")
    /\ UNCHANGED <<cliVars, routingVars, stagingVars, tildaBuildDir, fileData,
                   metadataJson, packageZip>>

NextBuild ==
    \/ ValidateInputs
    \/ ClearTildaDirs
    \/ TraceEntryFile
    \/ CopyRootStaticDirs
    \/ CopyUnderscoreDir
    \/ CopyServerDir
    \/ PruneDependencies
    \/ CopyDependencies
    \/ CopyDebugFiles
    \/ CopyLockFiles
    \/ SettlePendingWrite
    \/ ReadBuildDir
    \/ ParseInlineRoutingConfig
    \/ SynthesizeRoutes
    \/ WriteMetadata
    \/ ZipReadError
    \/ WritePackageZip

SpecBuild == InitBuild /\ [][NextBuild]_vars

----------------------------------------------------------------------------
(* Properties of the emitted routes.                                        *)

\* The routes array of the metadata.json that was written.
Emitted == IsSome(metadataJson)
EmittedRoutes == Get(metadataJson).json

\* The inline rules as supplied on the command line.
SuppliedRoutes == routingConfigJson.routes
NumSupplied == Len(SuppliedRoutes)

Range(seq) == {seq[i] : i \in DOMAIN seq}

\* The path modes a criteria.path object sets.
ModesSet(p) == {m \in PathModes : p[m] # {}}

\* The request paths a rule names one by one: exact, or the members of oneOf.
PathSet(route) ==
    route.criteria.path.exact
    \cup (IF IsSome(route.criteria.path.oneOf)
          THEN Range(Get(route.criteria.path.oneOf)) ELSE {})

UnderStatic(e) == Len(e.path) > 2 /\ e.path[1] = "static" /\ e.path[2] = "/"
UnderCompute(e) == Len(e.path) > 2 /\ e.path[1] = "compute" /\ e.path[2] = "/"

\* '/' + the path of a staged static entry relative to static/.
AbsoluteRoutePath(e) == <<"/">> \o SubSeq(e.path, 3, Len(e.path))

\* The absolute route path a static-file reference relative to the static
\* root stands for.
ResolveStaticRef(ref) ==
    IF ref # <<>> /\ ref[1] = "/" THEN ref ELSE <<"/">> \o ref

HasComputeFile == \E e \in tildaBuildDir : e.kind = "file" /\ UnderCompute(e)

IsCatchAllShaped(route) ==
    /\ route.criteria.path.prefix = {<<"/">>}
    /\ route.action.origin = "compute"

\* Positions of the emitted rules that come after the inline rules and
\* before the catch-all: the auto-derived static rules.
AutoPositions ==
    {i \in DOMAIN EmittedRoutes :
        /\ i > NumSupplied
        /\ i <= Len(EmittedRoutes) - (IF HasComputeFile THEN 1 ELSE 0)}

\* The rule was derived from a regular file staged under static/.
IsAutoDerivedStatic(route) ==
    /\ route.action.origin = "static"
    /\ route.criteria.path.prefix = {}
    /\ route.criteria.path.regex = {}
    /\ \E e \in tildaBuildDir :
          e.kind = "file" /\ UnderStatic(e) /\ AbsoluteRoutePath(e) \in PathSet(route)

\* C1: in the emitted routes every inline rule comes before every
\* auto-derived static rule, the inline rules keep the order in which they
\* were supplied, and the compute catch-all, when present, is the single
\* last element.
C1_RouteOrder ==
    Emitted =>
        /\ Len(EmittedRoutes) >= NumSupplied + (IF HasComputeFile THEN 1 ELSE 0)
        /\ \A i \in 1..NumSupplied :
              /\ EmittedRoutes[i].criteria = SuppliedRoutes[i].criteria
              /\ EmittedRoutes[i].action.origin = SuppliedRoutes[i].action.origin
              /\ EmittedRoutes[i].action.headers = SuppliedRoutes[i].action.headers
        /\ \A i \in AutoPositions :
              /\ IsAutoDerivedStatic(EmittedRoutes[i])
              /\ ~IsCatchAllShaped(EmittedRoutes[i])
        /\ HasComputeFile => IsCatchAllShaped(EmittedRoutes[Len(EmittedRoutes)])

\* Two different inline rules, a static rule and the catch-all were emitted.
C1_Witness ==
    /\ pc = "done"
    /\ NumSupplied = 2
    /\ SuppliedRoutes[1] # SuppliedRoutes[2]
    /\ Len(EmittedRoutes) >= 4
    /\ HasComputeFile

\* C2: the catch-all {prefix '/', origin compute} is appended exactly once,
\* as the last route, if and only if a regular file exists under compute/;
\* a compute payload plus the single static file favicon.ico gives exactly
\* [exact '/favicon.ico' -> static, prefix '/' -> compute].
C2_CatchAllIffComputeFile ==
    Emitted =>
        LET appended == {i \in DOMAIN EmittedRoutes :
                            i > NumSupplied /\ IsCatchAllShaped(EmittedRoutes[i])}
        IN  /\ HasComputeFile => appended = {Len(EmittedRoutes)}
            /\ ~HasComputeFile => appended = {}
            /\ (/\ HasComputeFile
                /\ NumSupplied = 0
                /\ rootStaticDir = {[path |-> <<"favicon", ".ico">>, kind |-> "file"]})
               => EmittedRoutes =
                    << [criteria |-> [path |-> [exact |-> {<<"/", "favicon", ".ico">>},
                                                prefix |-> {}, oneOf |-> {}, regex |-> {}],
                                      method |-> {}],
                        action |-> [origin |-> "static", originPath |-> {},
                                    staticFileRelativePath |-> {}, status |-> {},
                                    headers |-> {}]],
                       [criteria |-> [path |-> [exact |-> {}, prefix |-> {<<"/">>},
                                                oneOf |-> {}, regex |-> {}],
                                      method |-> {}],
                        action |-> [origin |-> "compute", originPath |-> {},
                                    staticFileRelativePath |-> {}, status |-> {},
                                    headers |-> {}]] >>

\* The favicon.ico scenario was built.
C2_Witness ==
    /\ pc = "done"
    /\ HasComputeFile
    /\ NumSupplied = 0
    /\ rootStaticDir = {[path |-> <<"favicon", ".ico">>, kind |-> "file"]}
    /\ Len(EmittedRoutes) = 2

\* A regular file under static/ named index.html that no inline rule claims.
IsUnclaimedIndexHtml(e) ==
    /\ e.kind = "file"
    /\ UnderStatic(e)
    /\ e.path[Len(e.path) - 2] = "/"
    /\ e.path[Len(e.path) - 1] = "index"
    /\ e.path[Len(e.path)] = ".html"
    /\ \A i \in 1..NumSupplied :
          SuppliedRoutes[i].action.staticFileRelativePath # {AbsoluteRoutePath(e)}

\* C3: every unclaimed regular file named index.html, at any depth, gets one
\* rule with origin static and originPath R whose oneOf lists the distinct
\* members of {R, R without '/index.html', that trimmed path plus '/'}.
C3_IndexHtmlVariants ==
    Emitted =>
        \A e \in {x \in tildaBuildDir : IsUnclaimedIndexHtml(x)} :
            LET R       == AbsoluteRoutePath(e)
                trimmed == SubSeq(R, 1, Len(R) - 3)
                hits    == {i \in DOMAIN EmittedRoutes :
                               EmittedRoutes[i].action.originPath = {R}}
            IN  /\ Cardinality(hits) = 1
                /\ \A i \in hits :
                      /\ EmittedRoutes[i].action.origin = "static"
                      /\ ModesSet(EmittedRoutes[i].criteria.path) = {"oneOf"}
                      /\ PathSet(EmittedRoutes[i]) = {R, trimmed, trimmed \o <<"/">>}
                      /\ Len(Get(EmittedRoutes[i].criteria.path.oneOf)) =
                            Cardinality(PathSet(EmittedRoutes[i]))

\* index.html at the static root and one level down were both routed.
C3_Witness ==
    /\ pc = "done"
    /\ \E e \in tildaBuildDir : IsUnclaimedIndexHtml(e) /\ Len(e.path) = 4
    /\ \E e \in tildaBuildDir : IsUnclaimedIndexHtml(e) /\ Len(e.path) = 6

\* C4: every file staged under static/, regular or symlink, is the target of
\* an auto-derived rule whose path set holds its route path or of an inline
\* rule whose originPath is that route path.
C4_EveryStaticFileRouted ==
    Emitted =>
        \A e \in {x \in tildaBuildDir : x.kind # "dir" /\ UnderStatic(x)} :
            \/ \E i \in AutoPositions :
                  /\ EmittedRoutes[i].action.origin = "static"
                  /\ AbsoluteRoutePath(e) \in PathSet(EmittedRoutes[i])
            \/ \E i \in 1..NumSupplied :
                  EmittedRoutes[i].action.originPath = {AbsoluteRoutePath(e)}

\* The file an auto-derived rule serves.
TargetOf(route) ==
    IF IsSome(route.action.originPath) THEN route.action.originPath
    ELSE route.criteria.path.exact

\* C5: a static file is excluded from auto-derived rule generation exactly
\* when an inline rule's static-file reference resolves to its absolute
\* route path; an excluded file gets no auto-derived rule, any other file
\* gets exactly one.
C5_ClaimedFilesExcluded ==
    Emitted =>
        \A e \in {x \in tildaBuildDir : x.kind = "file" /\ UnderStatic(x)} :
            LET claimed ==
                    \E i \in 1..NumSupplied :
                        /\ IsSome(SuppliedRoutes[i].action.staticFileRelativePath)
                        /\ ResolveStaticRef(Get(SuppliedRoutes[i].action.staticFileRelativePath))
                              = AbsoluteRoutePath(e)
                derived == {i \in AutoPositions :
                               TargetOf(EmittedRoutes[i]) = {AbsoluteRoutePath(e)}}
            IN  Cardinality(derived) = (IF claimed THEN 0 ELSE 1)

\* C6: an inline rule with a static-file reference is emitted with
\* originPath equal to the file's absolute route path and without the
\* reference field; the other inline rules are emitted unchanged.
C6_InlineRefRewritten ==
    Emitted =>
        \A i \in 1..NumSupplied :
            LET given == SuppliedRoutes[i].action
                out   == EmittedRoutes[i].action
            IN  /\ EmittedRoutes[i].criteria = SuppliedRoutes[i].criteria
                /\ out.origin = given.origin
                /\ out.status = given.status
                /\ out.headers = given.headers
                /\ out.staticFileRelativePath = {}
                /\ IF IsSome(given.staticFileRelativePath)
                   THEN out.originPath =
                           {ResolveStaticRef(Get(given.staticFileRelativePath))}
                   ELSE out.originPath = {}

\* C7: a progressive-rendering artifact, named as the Next.js adapter names
\* it, that is staged under static/ and referenced by no inline rule makes
\* the build abort: no metadata.json and no package.zip is written.
C7_StrayArtifactAborts ==
    (\E e \in tildaBuildDir :
        /\ e.kind = "file"
        /\ UnderStatic(e)
        /\ EndsWith(e.path, ProgressiveRenderingSuffix)
        /\ \A i \in 1..NumSupplied :
              LET ref == SuppliedRoutes[i].action.staticFileRelativePath
              IN  IsSome(ref) => ResolveStaticRef(Get(ref)) # AbsoluteRoutePath(e))
    => (metadataJson = {} /\ packageZip = {})

\* C8: no request path is claimed by two different auto-derived static
\* rules.
C8_NoSharedStaticPath ==
    Emitted =>
        \A i, j \in AutoPositions :
            i # j => PathSet(EmittedRoutes[i]) \cap PathSet(EmittedRoutes[j]) = {}

\* C9: every emitted rule sets exactly one of exact, prefix, oneOf, regex,
\* and an inline config with a rule that sets none or several is rejected
\* before any metadata is written.
C9_ExactlyOnePathMode ==
    /\ Emitted =>
          \A i \in DOMAIN EmittedRoutes :
              Cardinality(ModesSet(EmittedRoutes[i].criteria.path)) = 1
    /\ (\E i \in 1..NumSupplied :
           Cardinality(ModesSet(SuppliedRoutes[i].criteria.path)) # 1)
       => metadataJson = {}

\* C10: a method list of an emitted rule holds at most 7 methods, none of
\* them twice.
C10_MethodListUnique ==
    Emitted =>
        \A i \in DOMAIN EmittedRoutes :
            IsSome(EmittedRoutes[i].criteria.method) =>
                LET m == Get(EmittedRoutes[i].criteria.method)
                IN  /\ Len(m) <= 7
                    /\ \A a, b \in DOMAIN m : a # b => m[a] # m[b]

----------------------------------------------------------------------------
(* Properties of the validation, the staging tree and the archive.          *)

\* path lies in the directory tree rooted at dir
IsBelow(path, dir) == StartsWith(path, dir \o <<"/">>)

\* The absolute path a staged regular file was copied from, if it is a copy.
IsCopy(p) == p \in DOMAIN fileData /\ "bytes" \in DOMAIN fileData[p]

UnderComputePath(p) == StartsWith(p, ComputeZone \o <<"/">>)
UnderDebugPath(p) == StartsWith(p, DebugDirName \o <<"/">>)

\* The root static directories and the underscore-named static directory.
StaticSourceDirs ==
    Range(flags.rootStaticDir) \cup flags.underscoreNamedStaticDir

\* The relative paths of the regular files of the root static directory
\* dirs[i].
FilesOfRootStaticDir(i) ==
    {e.path : e \in EntriesBelow(projectFiles, flags.rootStaticDir[i])}

\* C11: after a successful build no file copied from below a root static
\* directory or the underscore-named static directory is present under
\* compute/, and no traced dependency below serverDir is among the
\* dependencies the dependency-copy step copies.
C11_NoStaticSourceUnderCompute ==
    pc = "done" =>
        /\ \A p \in DOMAIN fileData :
              (UnderComputePath(p) /\ IsCopy(p)) =>
                 \A dir \in StaticSourceDirs : ~IsBelow(fileData[p].bytes, dir)
        /\ \A d \in entryFileDependencies :
              ~IsBelow(InProject(d), flags.serverDir)

\* C12: after a successful build whose trace holds the project's
\* package.json, with every issued write settled: compute/<basename>/
\* package.json holds exactly {type} when the manifest has a type and does
\* not exist when it has none, never the manifest's own bytes; every other
\* traced dependency that was not pruned is at the same relative path
\* below compute/<basename>, with the dependency's bytes.
C12_PackageJsonTypeOnly ==
    (pc = "done" /\ pendingWrites = {} /\ PackageJsonName \in serverFileTrace) =>
        LET computeDir == ComputeDirPath(flags.serverDir)
            manifest   == PathJoin(computeDir, PackageJsonName)
        IN  /\ IF IsSome(packageJson)
               THEN /\ manifest \in DOMAIN fileData
                    /\ fileData[manifest] = [type |-> Get(packageJson)]
               ELSE manifest \notin DOMAIN fileData
            /\ \A d \in serverFileTrace \ {PackageJsonName} :
                  ~IsPruned(d, flags) =>
                     /\ PathJoin(computeDir, d) \in DOMAIN fileData
                     /\ fileData[PathJoin(computeDir, d)] = Bytes(InProject(d))

C12_Witness ==
    /\ pc = "done"
    /\ pendingWrites = {}
    /\ IsSome(packageJson)
    /\ {PackageJsonName, <<"node_modules", "/", "dep", ".js">>} \subseteq serverFileTrace
    /\ PathJoin(ComputeDirPath(flags.serverDir), PackageJsonName) \in DOMAIN fileData

\* C13: right after the root static directories were copied, every file
\* path present in more than one of them is at static/<path> with the bytes
\* of the last directory that holds it and is named by an overwrite
\* warning; with at most one root static directory nothing is warned of.
C13_LastRootStaticDirWins ==
    pc = "rootStaticCopied" =>
        /\ \A i \in DOMAIN flags.rootStaticDir :
              \A rel \in FilesOfRootStaticDir(i) :
                 LET holders == {j \in DOMAIN flags.rootStaticDir :
                                    rel \in FilesOfRootStaticDir(j)}
                     last    == CHOOSE j \in holders : \A k \in holders : k <= j
                 IN  Cardinality(holders) > 1 =>
                        /\ fileData[PathJoin(StaticDirName, rel)] =
                              Bytes(PathJoin(flags.rootStaticDir[last], rel))
                        /\ rel \in logged
        /\ Len(flags.rootStaticDir) <= 1 => logged = {}

C13_Witness ==
    /\ pc = "rootStaticCopied"
    /\ flags.rootStaticDir = <<InProject(<<"public">>), InProject(<<"extra">>)>>
    /\ <<"robots", ".txt">> \in logged
    /\ fileData[<<"static", "/", "robots", ".txt">>] =
          Bytes(InProject(<<"extra", "/", "robots", ".txt">>))

\* The name the underscore-named directory is to be served under: its path
\* relative to the project with a '.' at position 0 turned into '_' and
\* every other character kept.
LeadingDotReplaced(rel) ==
    IF rel # <<>> /\ rel[1] = "." THEN [rel EXCEPT ![1] = "_"] ELSE rel

\* C14: right after the underscore-named static directory was copied, each
\* of its files is at static/<name>/<file>, where <name> is the directory's
\* project-relative path with only a leading '.' replaced by '_'.
C14_OnlyLeadingDotReplaced ==
    (pc = "staticStaged" /\ IsSome(flags.underscoreNamedStaticDir)) =>
        LET dir  == Get(flags.underscoreNamedStaticDir)
            name == LeadingDotReplaced(PathRelative(ProjectDir, dir))
        IN  \A e \in EntriesBelow(projectFiles, dir) :
               LET p == PathJoin(PathJoin(StaticDirName, name), e.path)
               IN  /\ p \in DOMAIN fileData
                   /\ fileData[p] = Bytes(PathJoin(dir, e.path))

MetadataName == <<"metadata", ".json">>

\* C15: when the archive is assembled, every non-directory entry then in
\* the staging tree has an archive entry at its relative path that holds
\* its bytes (regular file) or its link-target string (symlink), and
\* metadata.json has an entry that holds the text of build/metadata.json.
C15_ArchiveRoundTrip ==
    [][(pc = "written" /\ pc' = "done") =>
          /\ \A e \in tildaBuildDir :
                ~IsDirectory(e) =>
                   /\ e.path \in DOMAIN zip'
                   /\ zip'[e.path].data = fileData[e.path]
          /\ MetadataName \in DOMAIN zip'
          /\ zip'[MetadataName].data = Get(metadataJson)]_vars

\* C16: after a successful build the archive has the root entry
\* metadata.json, the listing the zip loop ran over has no entry of that
\* name, and the entry's bytes are those of build/metadata.json: the
\* serialization of the routes the build synthesized.
C16_MetadataEntryMatchesFile ==
    pc = "done" =>
        /\ MetadataName \in DOMAIN zip
        /\ \A i \in DOMAIN filesInTildaBuildDir :
              filesInTildaBuildDir[i].path # MetadataName
        /\ IsSome(metadataJson)
        /\ zip[MetadataName].data = Get(metadataJson)
        /\ Get(metadataJson) = [json |-> routes]

C16_Witness ==
    /\ pc = "done"
    /\ routes # <<>>
    /\ zip[MetadataName].data = Get(metadataJson)

\* C17: the clearing step of a build that passed validation leaves
\* .tilda/build empty, empties .tilda/stage when preserveStage is not set
\* and leaves .tilda/stage as it was when it is set; no file of an earlier
\* build is an entry of the new archive.
C17_ClearingStep ==
    [][/\ (pc = "validated" /\ pc' = "cleared") =>
             /\ tildaBuildDir' = {}
             /\ fileData' = EmptyFiles
             /\ metadataJson' = None
             /\ packageZip' = None
             /\ ~flags.preserveStage => tildaStageDir' = {}
             /\ flags.preserveStage => tildaStageDir' = tildaStageDir
       /\ pc' = "done" =>
             \A name \in DOMAIN zip' : name \notin DOMAIN EarlierFileData]_vars

C17_Witness ==
    /\ pc = "cleared"
    /\ flags.preserveStage
    /\ tildaStageDir = StagedArtifacts
    /\ tildaBuildDir = {}

\* C18: after a build that failed, .tilda/build holds no file that the
\* failed run wrote: whatever is there was left by an earlier build.
C18_NoPartialOutput ==
    pc = "failed" =>
        \A p \in DOMAIN fileData : fileData[p] = EarlierFileData[<<"static", "/", "old", ".html">>]

\* C19: a build is past validation only if the server entry file lies in
\* the directory tree rooted at the server directory.
C19_EntryInsideServerDir ==
    pc \notin {"validate", "failed"} =>
        IsBelow(flags.serverEntryFile, flags.serverDir)

\* The lock files at the project root, and those in the debug zone.
LockFilesAtRoot ==
    {i \in DOMAIN LOCK_FILES :
        \E e \in projectFiles : e.path = InProject(LOCK_FILES[i]) /\ IsFile(e)}
LockFilesInDebug ==
    {i \in DOMAIN LOCK_FILES : PathJoin(DebugDirName, LOCK_FILES[i]) \in DOMAIN fileData}

\* C20: a build succeeds only when exactly one lock file exists at the
\* project root, and debug/ then holds that lock file and no other; a
\* build of a project without a lock file that has reached the debug copy
\* fails with 'Lock file not found'.
C20_ExactlyOneLockFile ==
    /\ pc = "done" =>
          /\ Cardinality(LockFilesAtRoot) = 1
          /\ LockFilesInDebug = LockFilesAtRoot
    /\ (LockFilesAtRoot = {} /\ pc = "failed"
           /\ \E p \in DOMAIN fileData : UnderDebugPath(p)) =>
          errorMessage = "Lock file not found"

----------------------------------------------------------------------------
(* The framework flags of the build commands: Build.flags and               *)
(* BuildStatic.flags, the arguments by which the adapters run Build, and    *)
(* the framework fields of the metadata.                                    *)

\* The variables of the staging steps and of the route synthesis, and the
\* outputs of a build.
buildVars == <<routingVars, stagingVars, tildaBuildDir, fileData>>
outputVars == <<metadataJson, packageZip>>

\* Nothing was staged and no flag was parsed.
StagingIdle ==
    /\ rootStaticDir = {}
    /\ serverDir = {}
    /\ routingConfigJson = [wellFormed |-> TRUE, routes |-> <<>>]
    /\ tildaBuildDir = {}
    /\ filesInTildaBuildDir = <<>>
    /\ computeFiles = <<>>
    /\ inlineRoutingConfig = <<>>
    /\ staticFiles = <<>>
    /\ routes = <<>>
    /\ flags = NoFlags
    /\ projectFiles = {}
    /\ packageJson = None
    /\ tildaStageDir = {}
    /\ serverFileTrace = {}
    /\ entryFileDependencies = {}
    /\ logged = {}
    /\ pendingWrites = {}
    /\ fileData = EmptyFiles
    /\ zip = EmptyFiles

FrameworkPool == {"nextjs", "nuxt", "astro", "svelte"}
FrameworkVersionPool == {"14.2.3", "3.11.0", "4.16.0"}

\* The adapters that end by running Build.
Adapters == {"nuxt", "qwik", "svelte", "astro", "nextjs"}

\* The framework flags in the arguments an adapter hands to
\* BuildCommand.run: the Next.js adapter passes both, the others none.
AdapterArgv(adapter) ==
    IF adapter = "nextjs"
    THEN {[framework |-> Some("nextjs"), frameworkVersion |-> Some(v)] :
              v \in FrameworkVersionPool}
    ELSE {NoArgv}

\* The framework flags a user can type.
CliArgv ==
    [framework : {None} \cup {Some(f) : f \in FrameworkPool},
     frameworkVersion : {None} \cup {Some(v) : v \in FrameworkVersionPool}]

\* The flags declared with required: true.
RequiredFlags(cmd) ==
    IF cmd = "build" THEN {"framework", "frameworkVersion"} ELSE {}

\* framework and frameworkVersion of buildMetadata.v2; JSON.stringify
\* leaves out a key whose value is undefined.
FrameworkMetadata(parsedFlags) ==
    [framework |-> parsedFlags.framework,
     frameworkVersion |-> parsedFlags.frameworkVersion]

InitFlags ==
    /\ invokedBy \in {"cli"} \cup Adapters
    /\ command \in IF invokedBy = "cli" THEN {"build", "build static"}
                                        ELSE {"build"}
    /\ argv \in IF invokedBy = "cli" THEN CliArgv ELSE AdapterArgv(invokedBy)
    /\ StagingIdle
    /\ metadataJson = None
    /\ packageZip = None
    /\ pc = "invoked"
    /\ errorMessage = ""
    /\ DeployIdle
    /\ NextJsIdle
    /\ SafelyIdle

\* this.parse(): a required flag that is missing ends the command.
ParseFlags ==
    /\ pc = "invoked"
    /\ IF \E f \in RequiredFlags(command) : ~IsSome(argv[f])
       THEN /\ Fail("Missing required flag")
            /\ UNCHANGED flags
       ELSE /\ flags' = argv
            /\ pc' = "parsed"
            /\ UNCHANGED errorMessage
    /\ UNCHANGED <<routingVars, projectFiles, packageJson, tildaStageDir,
                   serverFileTrace, entryFileDependencies, logged,
                   pendingWrites, tildaBuildDir, fileData, outputVars,
                   cliVars>>

\* The framework fields of the metadata.json the command writes.
EmitFrameworkMetadata ==
    /\ pc = "parsed"
    /\ metadataJson' = Some(JsonStringify(FrameworkMetadata(flags)))
    /\ pc' = "done"
    /\ UNCHANGED <<buildVars, packageZip, errorMessage, cliVars>>

NextFlags ==
    \/ ParseFlags
    \/ EmitFrameworkMetadata

SpecFlags == InitFlags /\ [][NextFlags]_vars

\* C21: the build commands accept framework and frameworkVersion only as a
\* pair: a run with neither is accepted and its metadata omits both, a run
\* with both is accepted and its metadata has both, and a run with exactly
\* one of them is rejected.
C21_FrameworkFlagsPaired ==
    LET hasFramework == IsSome(argv.framework)
        hasVersion   == IsSome(argv.frameworkVersion)
    IN  /\ (pc # "invoked" /\ hasFramework # hasVersion) => pc = "failed"
        /\ (hasFramework = hasVersion) => pc # "failed"
        /\ pc = "done" =>
              /\ Get(metadataJson).json.framework = argv.framework
              /\ Get(metadataJson).json.frameworkVersion = argv.frameworkVersion

----------------------------------------------------------------------------
(* The order of the steps of Build.run and the write of package.zip.        *)

\* The position of each step of Build.run in the pipeline.
StepOrder ==
    <<"validate", "validated", "cleared", "traced", "rootStaticCopied",
      "staticStaged", "computeStaged", "pruned", "dependenciesCopied",
      "debugCopied", "serverCopied", "listed", "parsed", "synthesized",
      "written", "done">>
Rank(step) == CHOOSE i \in DOMAIN StepOrder : StepOrder[i] = step

\* The names of the complete archive of the listed staging tree.
CompleteArchive ==
    {filesInTildaBuildDir[i].path :
        i \in {j \in DOMAIN filesInTildaBuildDir :
                  ~IsDirectory(filesInTildaBuildDir[j])}}
    \cup {MetadataName}

----------------------------------------------------------------------------
(* `tilda deploy`, src/src/commands/deploy/index.ts, Deploy.run, on a       *)
(* project directory where `tilda build` may have run.                      *)

\* path.join(tildaBuildDirPath, 'package.zip') of Build.run and of
\* BuildStatic.run, and path.resolve(flags.projectDir, '.tilda',
\* 'package.zip') of Deploy.run, relative to the project directory.
ZipFilePath == <<".tilda", "/", "build", "/", "package", ".zip">>
TildaBuildFilePath == <<".tilda", "/", "package", ".zip">>

\* What is on disk at a path of the project directory: {} when nothing
\* is, else a file with the entries of its archive or a directory.
ArchiveFile(entries) == [isFile |-> TRUE, entries |-> entries]
Directory == [isFile |-> FALSE, entries |-> {}]
FileAt(path) ==
    IF path = ZipFilePath
    THEN IF IsSome(packageZip) THEN Some(ArchiveFile(Get(packageZip))) ELSE None
    ELSE IF path = TildaBuildFilePath THEN tildaPackageZip
    ELSE None

\* buildFileStats.size
Size(file) == Cardinality(file.entries)

\* The archive the build that just ran wrote, and one left by an earlier
\* run of a command that wrote its archive to .tilda/package.zip.
BuiltArchives ==
    { {<<"static", "/", "index", ".html">>, <<"metadata", ".json">>},
      {<<"compute", "/", "server", "/", "entry", ".js">>,
       <<"metadata", ".json">>} }
StaleArchive == {<<"static", "/", "old", ".html">>, <<"metadata", ".json">>}

\* The outcomes of a call of the API client and of the upload POST.
ApiOutcomes == {"ok", "error"}
UploadOutcomes == {"ok", "notOk", "throws"}

\* A request the command sent, with the archive entries it carried.
Request(name, body, outcome) == [name |-> name, body |-> body, outcome |-> outcome]

\* uploadError || !uploadResponse.ok
UploadFailed_OnlyWhenThrown(outcome) == outcome = "throws"
UploadFailed(outcome) == outcome # "ok"

InitDeploy ==
    /\ packageZip \in {None} \cup {Some(a) : a \in BuiltArchives}
    /\ tildaPackageZip \in
          {None, Some(Directory), Some(ArchiveFile({})),
           Some(ArchiveFile(StaleArchive))}
          \cup {Some(ArchiveFile(a)) : a \in BuiltArchives}
    /\ requests = <<>>
    /\ command = "deploy"
    /\ invokedBy = "cli"
    /\ argv = NoArgv
    /\ StagingIdle
    /\ metadataJson = None
    /\ pc = "deploy"
    /\ errorMessage = ""
    /\ NextJsIdle
    /\ SafelyIdle

\* The checks of the identity and of the build file.
CheckBuildFile ==
    /\ pc = "deploy"
    /\ \E loggedIn \in BOOLEAN, statError \in {"none", "EACCES"} :
          LET buildFileStats == FileAt(TildaBuildFilePath)
          IN  IF ~loggedIn
              THEN Fail("You are not logged in")
              ELSE IF statError # "none"
              THEN Fail("Error checking build file")
              ELSE IF IsSome(buildFileStats) /\ ~Get(buildFileStats).isFile
              THEN Fail("Build file is not a valid file")
              ELSE IF ~IsSome(buildFileStats)
              THEN Fail("Build file does not exist")
              ELSE IF Size(Get(buildFileStats)) = 0
              THEN Fail("Build file is empty")
              ELSE /\ pc' = "buildFileChecked"
                   /\ UNCHANGED errorMessage
    /\ UNCHANGED <<buildVars, outputVars, cliVars>>

\* apiClient.getComputeServicePackageUploadUrl.mutate
GetPackageUploadUrl ==
    /\ pc = "buildFileChecked"
    /\ \E outcome \in ApiOutcomes :
          /\ requests' = Append(requests, Request("getPackageUploadUrl", {}, outcome))
          /\ IF outcome = "error"
             THEN Fail("Error getting package upload URL")
             ELSE /\ pc' = "gotUploadUrl"
                  /\ UNCHANGED errorMessage
    /\ UNCHANGED <<buildVars, outputVars, flagVars, tildaPackageZip, nextJsVars,
                   safelyVars>>

\* fs.readFile(tildaBuildFilePath) and the POST of the form to endpointUrl.
UploadPackage ==
    /\ pc = "gotUploadUrl"
    /\ \/ /\ Fail("Error reading build file")
          /\ UNCHANGED requests
       \/ \E outcome \in UploadOutcomes :
             LET buildFileContents == Get(FileAt(TildaBuildFilePath)).entries
             IN  /\ requests' = Append(requests,
                                       Request("upload", buildFileContents, outcome))
                 /\ IF UploadFailed(outcome)
                    THEN Fail("Error uploading package")
                    ELSE /\ pc' = "uploaded"
                         /\ UNCHANGED errorMessage
    /\ UNCHANGED <<buildVars, outputVars, flagVars, tildaPackageZip, nextJsVars,
                   safelyVars>>

\* apiClient.createComputeServiceVersion.mutate and the log of its feed.
CreateVersion ==
    /\ pc = "uploaded"
    /\ \E outcome \in ApiOutcomes :
          /\ requests' = Append(requests, Request("createVersion", {}, outcome))
          /\ IF outcome = "error"
             THEN Fail("Error creating version")
             ELSE /\ pc' = "done"
                  /\ UNCHANGED errorMessage
    /\ UNCHANGED <<buildVars, outputVars, flagVars, tildaPackageZip, nextJsVars,
                   safelyVars>>

NextDeploy ==
    \/ CheckBuildFile
    \/ GetPackageUploadUrl
    \/ UploadPackage
    \/ CreateVersion

SpecDeploy == InitDeploy /\ [][NextDeploy]_vars

\* The requests of a given name, by position.
Sent(name) == {i \in DOMAIN requests : requests[i].name = name}

\* C23: the version-creation request is sent only after the upload POST
\* returned ok; a deploy that fails to get the upload URL, or whose upload
\* throws or returns non-ok, ends at once with no retry and no
\* version-creation request; no step changes the local package.zip.
C23_VersionOnlyAfterUpload ==
    [][/\ \A i \in {j \in DOMAIN requests' : requests'[j].name = "createVersion"} :
             \E u \in 1..(i - 1) :
                /\ requests'[u].name = "upload"
                /\ requests'[u].outcome = "ok"
       /\ \A i \in DOMAIN requests' :
             (requests'[i].outcome # "ok") =>
                 /\ i = Len(requests')
                 /\ pc' = "failed"
       /\ \A i, j \in DOMAIN requests' :
             (requests'[i].name = requests'[j].name) => i = j
       /\ tildaPackageZip' = tildaPackageZip
       /\ packageZip' = packageZip
      ]_vars

\* An upload returned non-ok and the deploy ended without asking for a
\* version.
C23_Witness ==
    /\ pc = "failed"
    /\ \E i \in Sent("upload") : requests[i].outcome = "notOk"
    /\ Sent("createVersion") = {}
    /\ IsSome(tildaPackageZip)

\* C29: `tilda deploy` reads the archive at the path where a successful
\* `tilda build` wrote package.zip: after a build, a deploy never fails with
\* 'Build file does not exist' and every upload carries the archive that
\* build wrote.
C29_DeployReadsBuiltPackage ==
    IsSome(packageZip) =>
        /\ errorMessage # "Build file does not exist"
        /\ \A i \in Sent("upload") : requests[i].body = Get(packageZip)

----------------------------------------------------------------------------
(* `tilda build nextjs`, src/src/commands/build/nextjs/index.ts,            *)
(* BuildNextJs.run: the backup, the patch and the restore of the Next.js    *)
(* config file.                                                             *)

\* Texts of a user's Next.js config file, and the text of the config file
\* the command writes, which imports the '.original' backup.
UserConfigs ==
    {"user config A", "user config B", "user config C", "user config D"}
TildaConfig == "tilda config importing the original"

\* restoreConfigFile(): with this.configFilePaths set, fs.copyFile of the
\* backup over the config file, then fs.rm of the backup; fs.copyFile of a
\* backup that does not exist fails and changes nothing.
RestoreConfigFile_KeepsBackup(paths, config, original) ==
    IF paths /\ IsSome(original)
    THEN [config |-> Get(original), original |-> original]
    ELSE [config |-> config, original |-> original]

RestoreConfigFile(paths, config, original) ==
    IF paths /\ IsSome(original)
    THEN [config |-> Get(original), original |-> None]
    ELSE [config |-> config, original |-> original]

InitNextJs ==
    /\ configFile \in UserConfigs \cup {TildaConfig}
    /\ originalConfigFile \in {None} \cup {Some(t) : t \in UserConfigs}
    /\ configFilePaths = FALSE
    /\ originalConfigFileText = None
    /\ command = "build nextjs"
    /\ invokedBy = "cli"
    /\ argv = NoArgv
    /\ StagingIdle
    /\ metadataJson = None
    /\ packageZip = None
    /\ pc = "nextjs"
    /\ errorMessage = ""
    /\ DeployIdle
    /\ SafelyIdle

\* fs.stat of the '.original' file: the command ends when it exists.
CheckOriginalConfigFile ==
    /\ pc = "nextjs"
    /\ IF IsSome(originalConfigFile)
       THEN Fail("Next.js config original file already exists")
       ELSE /\ pc' = "originalChecked"
            /\ UNCHANGED errorMessage
    /\ UNCHANGED <<buildVars, outputVars, cliVars>>

\* fs.readFile of the config file, fs.copyFile of it to the '.original'
\* file, and the assignment of this.configFilePaths.
BackUpConfigFile ==
    /\ pc = "originalChecked"
    /\ originalConfigFileText' = Some(configFile)
    /\ originalConfigFile' = Some(configFile)
    /\ configFilePaths' = TRUE
    /\ pc' = "backedUp"
    /\ UNCHANGED <<buildVars, outputVars, flagVars, deployVars, safelyVars,
                   configFile, errorMessage>>

\* fs.writeFile of the patched config; when it fails the file holds what
\* it held or what was written of the new text.
WritePatchedConfig ==
    /\ pc = "backedUp"
    /\ \/ /\ configFile' = TildaConfig
          /\ pc' = "patched"
          /\ UNCHANGED errorMessage
       \/ /\ configFile' \in {configFile, ""}
          /\ Fail("Error writing config file")
    /\ UNCHANGED <<buildVars, outputVars, flagVars, deployVars, safelyVars,
                   originalConfigFile, configFilePaths, originalConfigFileText>>

\* cp.execFileSync of the build command.
RunBuildCommand ==
    /\ pc = "patched"
    /\ \/ /\ pc' = "built"
          /\ UNCHANGED errorMessage
       \/ Fail("Error running build command")
    /\ UNCHANGED <<buildVars, outputVars, cliVars>>

\* await this.restoreConfigFile() after the build command.
RestoreAfterBuild ==
    /\ pc = "built"
    /\ LET restored == RestoreConfigFile(configFilePaths, configFile,
                                         originalConfigFile)
       IN  /\ configFile' = restored.config
           /\ originalConfigFile' = restored.original
    /\ pc' = "restored"
    /\ UNCHANGED <<buildVars, outputVars, flagVars, deployVars, safelyVars,
                   configFilePaths, originalConfigFileText, errorMessage>>

\* The steps after the restore, up to BuildCommand.run: any of them can
\* end the command.
PackageNextJs ==
    /\ pc = "restored"
    /\ \/ /\ pc' = "done"
          /\ UNCHANGED errorMessage
       \/ Fail("Error building the package")
    /\ UNCHANGED <<buildVars, outputVars, cliVars>>

\* catch(error): await this.restoreConfigFile().catch(() => {}); throw error
CatchError ==
    /\ pc = "failed"
    /\ LET restored == RestoreConfigFile(configFilePaths, configFile,
                                         originalConfigFile)
       IN  /\ configFile' = restored.config
           /\ originalConfigFile' = restored.original
    /\ pc' = "exited"
    /\ UNCHANGED <<buildVars, outputVars, flagVars, deployVars, safelyVars,
                   configFilePaths, originalConfigFileText, errorMessage>>

NextNextJs ==
    \/ CheckOriginalConfigFile
    \/ BackUpConfigFile
    \/ WritePatchedConfig
    \/ RunBuildCommand
    \/ RestoreAfterBuild
    \/ PackageNextJs
    \/ CatchError

SpecNextJs == InitNextJs /\ [][NextNextJs]_vars

C25_NoWriteInBackground ==
    pc \in {"listed", "parsed", "synthesized", "written", "done"} =>
        pendingWrites = {}

----------------------------------------------------------------------------
(* safely, src/src/lib/utils.ts, the function every command imports.        *)

\* What an operation yields: the value it succeeds with or the error it
\* fails with.
Payloads == {"stats", "text", "buffer", "ENOENT", "EACCES", "SyntaxError"}

\* The kinds of argument: a promise that fulfils or rejects, and a function
\* that returns a value, throws, or returns a promise that fulfils or
\* rejects later.
Operations ==
    [kind : {"promise"}, outcome : {"fulfils", "rejects"}, payload : Payloads]
    \cup
    [kind : {"function"},
     outcome : {"returns", "throws", "returnsFulfilling", "returnsRejecting"},
     payload : Payloads]

\* A settled value, and a promise that has not been awaited.
Value(payload) == [isPromise |-> FALSE, payload |-> payload]
Promise(payload) == [isPromise |-> TRUE, payload |-> payload]

\* The tuples safely resolves to.
Success(value) == [error |-> None, value |-> Some(value)]
Failure(error) == [error |-> Some(error), value |-> None]

\* typeof fnOrPromise === 'function' ? fnOrPromise() : (await fnOrPromise),
\* inside try/catch: a promise argument is awaited, the result of a
\* function is returned as it is.
Safely(operation) ==
    IF operation.kind = "promise"
    THEN IF operation.outcome = "fulfils"
         THEN Success(Value(operation.payload))
         ELSE Failure(operation.payload)
    ELSE IF operation.outcome = "returns"
         THEN Success(Value(operation.payload))
         ELSE IF operation.outcome = "throws"
         THEN Failure(operation.payload)
         ELSE Success(Promise(operation.payload))

InitSafely ==
    /\ fnOrPromise \in Operations
    /\ result = NoResult
    /\ unhandledRejections = {}
    /\ FlagsIdle
    /\ DeployIdle
    /\ NextJsIdle
    /\ StagingIdle
    /\ metadataJson = None
    /\ packageZip = None
    /\ pc = "call"
    /\ errorMessage = ""

\* const [error, value] = await safely(fnOrPromise)
CallSafely ==
    /\ pc = "call"
    /\ result' = Safely(fnOrPromise)
    /\ pc' = "returned"
    /\ UNCHANGED <<buildVars, outputVars, flagVars, deployVars, nextJsVars,
                   fnOrPromise, unhandledRejections, errorMessage>>

\* if (error) this.error(...)
CheckError ==
    /\ pc = "returned"
    /\ IF IsSome(result.error)
       THEN Fail("Error reported by safely")
       ELSE /\ pc' = "continued"
            /\ UNCHANGED errorMessage
    /\ UNCHANGED <<buildVars, outputVars, cliVars>>

\* The promise a function returned rejects after safely has resolved: no
\* handler is attached to it.
ReturnedPromiseRejects ==
    /\ pc # "call"
    /\ fnOrPromise.kind = "function"
    /\ fnOrPromise.outcome = "returnsRejecting"
    /\ unhandledRejections' = unhandledRejections \cup {fnOrPromise.payload}
    /\ UNCHANGED <<buildVars, outputVars, flagVars, deployVars, nextJsVars,
                   fnOrPromise, result, pc, errorMessage>>

NextSafely ==
    \/ CallSafely
    \/ CheckError
    \/ ReturnedPromiseRejects

SpecSafely == InitSafely /\ [][NextSafely]_vars

\* The operation failed: the promise rejected, or the function threw or
\* returned a promise that rejected.
OperationFailed ==
    fnOrPromise.outcome \in {"rejects", "throws", "returnsRejecting"}

\* C26: safely resolves to [undefined, result] exactly when the operation
\* succeeded and to [error, undefined] exactly when it failed, for a promise
\* and for a function that returns a value, throws, or returns a promise
\* that later rejects; every failure reaches the caller's error check.
C26_SafelyReportsEveryFailure ==
    /\ pc # "call" =>
          IF OperationFailed
          THEN result = Failure(fnOrPromise.payload)
          ELSE /\ result.error = None
               /\ IsSome(result.value)
               /\ Get(result.value).payload = fnOrPromise.payload
    /\ (pc \in {"continued", "failed"}) => (pc = "failed" <=> OperationFailed)
    /\ unhandledRejections = {}

----------------------------------------------------------------------------
(* `tilda build static`, src/src/commands/build/nuxt/index.ts,              *)
(* BuildStatic.run, for one root static directory.                          *)

\* Entries the root static directory of a static site can hold.
StaticSitePool ==
    { Dirent(<<"index", ".html">>, "file"),
      Dirent(<<"about", ".html">>, "file"),
      Dirent(<<"logo", ".png">>, "file"),
      Dirent(<<"docs", "/", "index", ".html">>, "file") }

\* Values of flags.routingConfigJson of a static build; the default is the
\* JSON text of {"routes": []}.
StaticRoutingConfigJsons ==
    {[wellFormed |-> FALSE, routes |-> <<>>]}
    \cup {[wellFormed |-> TRUE, routes |-> r] :
             r \in SeqsUpTo({AdapterRoute, PrefixRoute, NoModeRoute}, MaxInline)}

\* array.filter(Boolean) on strings: the empty string is dropped.
RECURSIVE FilterBoolean(_)
FilterBoolean(paths) ==
    IF paths = <<>> THEN <<>>
    ELSE IF Head(paths) = <<>> THEN FilterBoolean(Tail(paths))
    ELSE <<Head(paths)>> \o FilterBoolean(Tail(paths))

\* Array.from(new Set(paths)): the first occurrence of each string, in order.
RECURSIVE ArrayFromSet(_)
ArrayFromSet(paths) ==
    IF paths = <<>> THEN <<>>
    ELSE LET front == ArrayFromSet(SubSeq(paths, 1, Len(paths) - 1))
             last  == paths[Len(paths)]
         IN  IF \E i \in DOMAIN front : front[i] = last
             THEN front
             ELSE Append(front, last)

\* The rule of BuildStatic.run for an index.html.
StaticSiteIndexHtmlRoute_Unfiltered(routePath) ==
    Route(Criteria(PathCriteria(None, None,
                       Some(ArrayFromSet(
                                <<routePath,
                                  ReplaceIndexHtmlSuffix(routePath, <<>>),
                                  ReplaceIndexHtmlSuffix(routePath, <<"/">>)>>)),
                       None), None),
          Action("static", Some(routePath), None, None, None))

StaticSiteIndexHtmlRoute(routePath) ==
    Route(Criteria(PathCriteria(None, None,
                       Some(ArrayFromSet(FilterBoolean(
                                <<routePath,
                                  ReplaceIndexHtmlSuffix(routePath, <<>>),
                                  ReplaceIndexHtmlSuffix(routePath, <<"/">>)>>))),
                       None), None),
          Action("static", Some(routePath), None, None, None))

\* The rule of BuildStatic.run for any other .html file.
StaticSiteHtmlRoute(routePath) ==
    Route(Criteria(PathCriteria(None, None,
                       Some(ArrayFromSet(FilterBoolean(
                                <<routePath, ReplaceHtmlSuffix(routePath)>>))),
                       None), None),
          Action("static", Some(routePath), None, None, None))

\* The map callback of staticFileRoutes.
StaticSiteFileRoute(entry) ==
    LET routePath == RoutePathOf(entry)
    IN  IF Basename(RelativePath(entry)) = <<"index", ".html">>
        THEN StaticSiteIndexHtmlRoute(routePath)
        ELSE IF Extname(RelativePath(entry)) = <<".html">>
        THEN StaticSiteHtmlRoute(routePath)
        ELSE ExactRoute(routePath)

\* The filter of staticFileRoutes.
IsStaticSiteFile(entry) ==
    IsFile(entry) /\ StartsWith(RelativePath(entry), StaticDirName \o <<"/">>)

\* routes: [...staticFileRoutes, ...inlineRoutingConfig.routes]
BuildStaticRoutes(statics, inlineRoutes) ==
    [i \in DOMAIN statics |-> StaticSiteFileRoute(statics[i])] \o inlineRoutes

InitStatic ==
    /\ rootStaticDir \in SUBSET StaticSitePool
    /\ routingConfigJson \in StaticRoutingConfigJsons
    /\ projectFiles \in
          {{}, {Dirent(InProject(LOCK_FILES[1]), "file")}}
    /\ serverDir = {}
    /\ tildaBuildDir = {}
    /\ filesInTildaBuildDir = <<>>
    /\ computeFiles = <<>>
    /\ inlineRoutingConfig = <<>>
    /\ staticFiles = <<>>
    /\ routes = <<>>
    /\ flags = NoFlags
    /\ packageJson = None
    /\ tildaStageDir = {}
    /\ serverFileTrace = {}
    /\ entryFileDependencies = {}
    /\ logged = {}
    /\ pendingWrites = {}
    /\ fileData = EmptyFiles
    /\ zip = EmptyFiles
    /\ metadataJson = None
    /\ packageZip = None
    /\ pc = "static"
    /\ errorMessage = ""
    /\ command = "build static"
    /\ invokedBy = "cli"
    /\ argv = NoArgv
    /\ DeployIdle
    /\ NextJsIdle
    /\ SafelyIdle

\* The copy of the root static directory into build/static, then the lock
\* file check and the copy of the lock file into build/debug.
StageStaticSite ==
    /\ pc = "static"
    /\ LET static == CopyDir(rootStaticDir, StaticDirName)
           data   == CopyData(rootStaticDir, <<"public">>, StaticDirName)
           locks  == {e \in projectFiles : e.path = InProject(LOCK_FILES[1])}
           src    == {Dirent(LOCK_FILES[1], "file") : e \in locks}
       IN  IF locks = {}
           THEN /\ tildaBuildDir' = static
                /\ fileData' = data
                /\ Fail("Lock file not found")
           ELSE /\ tildaBuildDir' = static \cup CopyDir(src, DebugDirName)
                /\ fileData' = CopyData(src, ProjectDir, DebugDirName) @@ data
                /\ pc' = "staticStaged"
                /\ UNCHANGED errorMessage
    /\ UNCHANGED <<cliVars, routingVars, stagingVars, metadataJson, packageZip>>

\* JSON.parse(flags.routingConfigJson), then InlineRoutingConfigSchema.parseAsync.
ParseStaticInlineConfig ==
    /\ pc = "staticStaged"
    /\ IF routingConfigJson.wellFormed
          /\ InlineRoutingConfigSchemaAccepts(routingConfigJson)
       THEN /\ inlineRoutingConfig' = routingConfigJson.routes
            /\ pc' = "staticParsed"
            /\ UNCHANGED errorMessage
       ELSE /\ Fail("Error parsing inline routing config")
            /\ UNCHANGED inlineRoutingConfig
    /\ UNCHANGED <<cliVars, rootStaticDir, serverDir, routingConfigJson,
                   tildaBuildDir, filesInTildaBuildDir, computeFiles,
                   staticFiles, routes, metadataJson, packageZip, stagingVars,
                   fileData, zip>>

\* fs.readdir(tildaBuildDirPath, {recursive, withFileTypes}): the entries
\* below static/ come in any order.
ReadStaticBuildDir ==
    /\ pc = "staticParsed"
    /\ LET statics == {e \in tildaBuildDir : IsStaticSiteFile(e)}
       IN  \E order \in Listings(statics) :
              filesInTildaBuildDir' =
                  SomeListing({e \in tildaBuildDir : IsDirectory(e)})
                  \o order
                  \o SomeListing({e \in tildaBuildDir :
                                     ~IsDirectory(e) /\ e \notin statics})
    /\ pc' = "staticListed"
    /\ UNCHANGED <<cliVars, rootStaticDir, serverDir, routingConfigJson,
                   tildaBuildDir, computeFiles, inlineRoutingConfig,
                   staticFiles, routes, metadataJson, packageZip, errorMessage,
                   stagingVars, fileData, zip>>

\* staticFileRoutes and the routes array of buildMetadata.
SynthesizeStaticRoutes ==
    /\ pc = "staticListed"
    /\ staticFiles' =
          FilterSeq(filesInTildaBuildDir,
                    {e \in tildaBuildDir : IsStaticSiteFile(e)})
    /\ routes' = BuildStaticRoutes(staticFiles', inlineRoutingConfig)
    /\ pc' = "synthesized"
    /\ UNCHANGED <<cliVars, rootStaticDir, serverDir, routingConfigJson,
                   tildaBuildDir, filesInTildaBuildDir, computeFiles,
                   inlineRoutingConfig, metadataJson, packageZip, errorMessage,
                   stagingVars, fileData, zip>>

NextStatic ==
    \/ StageStaticSite
    \/ ParseStaticInlineConfig
    \/ ReadStaticBuildDir
    \/ SynthesizeStaticRoutes
    \/ WriteMetadata
    \/ WritePackageZip

SpecStatic == InitStatic /\ [][NextStatic]_vars

\* The static site of the scenario: index.html, about.html and logo.png in
\* the root static directory, and no inline rule.
IsScenarioSite ==
    /\ rootStaticDir = {Dirent(<<"index", ".html">>, "file"),
                        Dirent(<<"about", ".html">>, "file"),
                        Dirent(<<"logo", ".png">>, "file")}
    /\ routingConfigJson.routes = <<>>
    /\ Emitted

\* The emitted rules that are oneOf rules serving the given file with
\* exactly the given path variants, and those that are exact rules.
OneOfRules(file, variants) ==
    {i \in DOMAIN EmittedRoutes :
        /\ EmittedRoutes[i].action.origin = "static"
        /\ EmittedRoutes[i].action.originPath = Some(file)
        /\ IsSome(EmittedRoutes[i].criteria.path.oneOf)
        /\ Range(Get(EmittedRoutes[i].criteria.path.oneOf)) = variants
        /\ Len(Get(EmittedRoutes[i].criteria.path.oneOf)) = Cardinality(variants)}
ExactRules(file) ==
    {i \in DOMAIN EmittedRoutes :
        /\ EmittedRoutes[i].action.origin = "static"
        /\ EmittedRoutes[i].criteria.path.exact = Some(file)}

\* What the scenario's claim says of every rule but the one for index.html.
ScenarioRest ==
    /\ Len(EmittedRoutes) = 3
    /\ \A i \in DOMAIN EmittedRoutes : EmittedRoutes[i].action.origin = "static"
    /\ \A i \in DOMAIN EmittedRoutes : ~IsCatchAllShaped(EmittedRoutes[i])
    /\ Cardinality(OneOfRules(<<"/", "about", ".html">>,
                              {<<"/", "about", ".html">>, <<"/", "about">>})) = 1
    /\ Cardinality(ExactRules(<<"/", "logo", ".png">>)) = 1

\* The oneOf lists of the emitted rules that serve /index.html.
IndexHtmlVariants ==
    {Get(EmittedRoutes[i].criteria.path.oneOf) :
        i \in {j \in DOMAIN EmittedRoutes :
                  /\ EmittedRoutes[j].action.originPath = Some(<<"/", "index", ".html">>)
                  /\ IsSome(EmittedRoutes[j].criteria.path.oneOf)}}

C28_InlineBeforeStatic ==
    (command = "build static" /\ Emitted) =>
        \A i, j \in DOMAIN EmittedRoutes :
            (/\ \E k \in DOMAIN inlineRoutingConfig :
                    EmittedRoutes[i] = inlineRoutingConfig[k]
             /\ \E k \in DOMAIN staticFiles :
                    EmittedRoutes[j] = StaticSiteFileRoute(staticFiles[k]))
            => i < j

----------------------------------------------------------------------------
(* Build.run on a project whose server directory holds a package.json of    *)
(* its own, as the .next/standalone directory of a Next.js build does.      *)

\* The package.json at the top of the server directory.
ServerPackageJson == InProject(<<"server", "/", "package", ".json">>)

InitStandalone ==
    /\ flags \in [serverDir : {InProject(<<"server">>)},
                  serverEntryFile : {InProject(<<"server", "/", "entry", ".js">>)},
                  rootStaticDir : {<<>>, <<InProject(<<"public">>)>>},
                  underscoreNamedStaticDir :
                      {None, Some(InProject(<<".", "next", "/", "static">>))},
                  preserveStage : BOOLEAN]
    /\ projectFiles =
          ProjectTree \cup {Dirent(ServerPackageJson, "file"),
                            Dirent(InProject(LOCK_FILES[1]), "file")}
    /\ packageJson \in {None, Some(<<"module">>)}
    /\ tildaStageDir = StagedArtifacts
    /\ tildaBuildDir = {}
    /\ fileData = EmptyFiles
    /\ metadataJson = None
    /\ packageZip = None
    /\ routingConfigJson = [wellFormed |-> TRUE, routes |-> <<>>]
    /\ rootStaticDir = {}
    /\ serverDir = {}
    /\ filesInTildaBuildDir = <<>>
    /\ computeFiles = <<>>
    /\ inlineRoutingConfig = <<>>
    /\ staticFiles = <<>>
    /\ routes = <<>>
    /\ serverFileTrace = {}
    /\ entryFileDependencies = {}
    /\ logged = {}
    /\ pendingWrites = {}
    /\ zip = EmptyFiles
    /\ pc = "validate"
    /\ errorMessage = ""
    /\ OtherCommandsIdle

SpecStandalone == InitStandalone /\ [][NextBuild]_vars

\* C30: the write of the type-only package.json leaves every file copied
\* from the server directory unchanged: after a build of a project whose
\* server directory holds a package.json, compute/<basename>/package.json
\* has the content of the server directory's package.json.
C30_ServerPackageJsonKept ==
    (pc = "done" /\ \E e \in projectFiles : e.path = ServerPackageJson) =>
        LET manifest == PathJoin(ComputeDirPath(flags.serverDir), PackageJsonName)
        IN  /\ manifest \in DOMAIN fileData
            /\ fileData[manifest] = Bytes(ServerPackageJson)

====
